---- MODULE Spec2Model ----
(***************************************************************************)
(* Model of the monday-backend service: the retrying GraphQL client        *)
(* (MondayApiService), the calculation / audit orchestration               *)
(* (CalculationService), the webhook handler (MondayWebhookHandler) and    *)
(* the item routes, over the Factor and History collections and the        *)
(* remote board.                                                           *)
(***************************************************************************)
EXTENDS Integers, Sequences, FiniteSets

(***************************************************************************)
(* JavaScript values.  A value is a record tagged by k.  Numbers are exact *)
(* decimals m * 10^(-e), normalised so that m carries no trailing zero     *)
(* while e > 0.  Strings are sequences of one-character strings.           *)
(***************************************************************************)
RECURSIVE Pow(_, _)
Pow(b, n) == IF n = 0 THEN 1 ELSE b * Pow(b, n - 1)

RECURSIVE Normalise(_, _)
Normalise(m, e) ==
  IF e > 0 /\ m % 10 = 0 THEN Normalise(m \div 10, e - 1)
  ELSE [k |-> "num", m |-> m, e |-> e]

Num(m, e) == Normalise(m, e)
Int2Num(n) == Num(n, 0)
NaN == [k |-> "nan"]
Null == [k |-> "null"]
Undefined == [k |-> "undefined"]
Str(s) == [k |-> "str", s |-> s]

IsNum(v) == v.k = "num"
IsNaN(v) == v.k = "nan"

\* JavaScript truthiness: 0, NaN, "", null and undefined are falsy.
Truthy(v) ==
  CASE v.k = "num" -> v.m # 0
    [] v.k = "str" -> v.s # <<>>
    [] OTHER -> FALSE

\* a || b
OrElse(a, b) == IF Truthy(a) THEN a ELSE b

Abs(n) == IF n < 0 THEN -n ELSE n
Min(a, b) == IF a <= b THEN a ELSE b

DigitChars == <<"0", "1", "2", "3", "4", "5", "6", "7", "8", "9">>
IsDigit(c) == \E i \in 1..10 : DigitChars[i] = c
DigitVal(c) == (CHOOSE i \in 1..10 : DigitChars[i] = c) - 1

\* Decimal digits of a natural number, most significant first.
RECURSIVE Digits(_)
Digits(n) == IF n < 10 THEN <<DigitChars[n + 1]>>
             ELSE Digits(n \div 10) \o <<DigitChars[(n % 10) + 1]>>

\* The last w digits of n, left-padded with zeros.
RECURSIVE PadDigits(_, _)
PadDigits(n, w) == IF w = 0 THEN <<>>
                   ELSE PadDigits(n \div 10, w - 1) \o <<DigitChars[(n % 10) + 1]>>

\* Number::toString for the decimals of the model.
NumToChars(v) ==
  LET a == Abs(v.m)
      p == Pow(10, v.e)
      sign == IF v.m < 0 THEN <<"-">> ELSE <<>>
      frac == IF v.e = 0 THEN <<>> ELSE <<".">> \o PadDigits(a % p, v.e)
  IN sign \o Digits(a \div p) \o frac

\* String(v)
JsString(v) ==
  CASE v.k = "str" -> v
    [] v.k = "num" -> Str(NumToChars(v))
    [] v.k = "nan" -> Str(<<"N", "a", "N">>)
    [] v.k = "null" -> Str(<<"n", "u", "l", "l">>)
    [] OTHER -> Str(<<"u", "n", "d", "e", "f", "i", "n", "e", "d">>)

RECURSIVE SkipWs(_, _)
SkipWs(s, i) == IF i <= Len(s) /\ s[i] = " " THEN SkipWs(s, i + 1) ELSE i

\* First index after the run of digits that starts at i.
RECURSIVE DigitsEnd(_, _)
DigitsEnd(s, i) == IF i <= Len(s) /\ IsDigit(s[i]) THEN DigitsEnd(s, i + 1) ELSE i

\* Value of the digits s[i..j].
RECURSIVE DigitsValue(_, _, _)
DigitsValue(s, i, j) == IF j < i THEN 0
                        ELSE DigitsValue(s, i, j - 1) * 10 + DigitVal(s[j])

\* parseFloat: the longest prefix that is a decimal literal (after leading
\* blanks), NaN when there is none.  Exponents and "Infinity" are outside
\* the texts of the model.
parseFloat(str) ==
  LET s == str.s
      a == SkipWs(s, 1)
      neg == a <= Len(s) /\ s[a] = "-"
      b == IF a <= Len(s) /\ s[a] \in {"-", "+"} THEN a + 1 ELSE a
      c == DigitsEnd(s, b)
      hasDot == c <= Len(s) /\ s[c] = "."
      d == IF hasDot THEN DigitsEnd(s, c + 1) ELSE c
      nInt == c - b
      nFrac == IF hasDot THEN d - (c + 1) ELSE 0
      mag == DigitsValue(s, b, c - 1) * Pow(10, nFrac) + DigitsValue(s, c + 1, d - 1)
  IN IF nInt + nFrac = 0 THEN NaN
     ELSE Num(IF neg THEN -mag ELSE mag, nFrac)

\* parseInt in radix 10: the longest prefix that is an integer literal (after
\* leading blanks), NaN when there is none; an absent argument is read as
\* the text "undefined".
parseInt(v) ==
  LET s == JsString(v).s
      a == SkipWs(s, 1)
      neg == a <= Len(s) /\ s[a] = "-"
      b == IF a <= Len(s) /\ s[a] \in {"-", "+"} THEN a + 1 ELSE a
      c == DigitsEnd(s, b)
      mag == DigitsValue(s, b, c - 1)
  IN IF c = b THEN NaN ELSE Num(IF neg THEN -mag ELSE mag, 0)

\* a * b on numbers; NaN is absorbing.
Times(a, b) == IF IsNum(a) /\ IsNum(b) THEN Num(a.m * b.m, a.e + b.e) ELSE NaN

\* a < 0 (false for NaN)
Negative(v) == IsNum(v) /\ v.m < 0

(***************************************************************************)
(* Configuration and bounded inputs.                                       *)
(***************************************************************************)
\* defaultRetryConfig
DefaultMaxRetries == 3
DefaultBaseDelay == 1000
DefaultMaxDelay == 10000
DefaultBackoffFactor == 2
defaultRetryConfig ==
  [maxRetries |-> DefaultMaxRetries, baseDelay |-> DefaultBaseDelay,
   maxDelay |-> DefaultMaxDelay, backoffFactor |-> DefaultBackoffFactor]

\* config.inputNumberColumnId / config.resultNumberColumnId
inputColumnId == "numbers_in"
resultColumnId == "numbers_out"

\* Number of requests the service receives in a behaviour.
MaxRequests == 1
\* Number of edits users make to the remote input column in a behaviour.
MaxEdits == 1
\* Largest maxRetries among the retry configurations tried besides the default.
MaxRetriesInput == 2

\* The handlers that run at the same time: one request is handled at a time.
Handlers == {"h1"}

Chars(n) == NumToChars(Int2Num(n))
PulseIds == {123, 999}
ItemIds == {Chars(p) : p \in PulseIds}

\* Texts the remote input column may show; Null is a column without text.
InputTexts ==
  {Str(<<"1", "0">>), Str(<<"0">>), Str(<<>>), Str(<<"a", "b", "c">>),
   Str(<<"1", "2", "a", "b", "c">>), Null}

\* Factors a caller may send (2.5, 0, 2, -1, a string, nothing).
FactorInputs ==
  {Num(25, 1), Num(0, 0), Num(2, 0), Num(-1, 0), Str(<<"2">>), Undefined}

\* Values of the limit parameter of a history request; Undefined is a
\* request without the parameter.
LimitQueries ==
  {Undefined, Str(<<"0">>), Str(<<"-", "1">>), Str(<<"1">>), Str(<<"2">>),
   Str(<<"1", "0", "0">>), Str(<<"1", "0", "1">>), Str(<<"a", "b", "c">>)}

\* A document of the Factor collection; id stands for its _id.
FactorRow(id, itemId, factor) == [id |-> id, itemId |-> itemId, factor |-> factor]

\* Webhook payloads: MondayWebhookPayload plus the optional challenge.
EventValues ==
  {Undefined, [k |-> "obj", value |-> Int2Num(10)], [k |-> "obj", value |-> Int2Num(7)],
   [k |-> "obj", value |-> Null],
   [k |-> "obj", value |-> Str(<<"a", "b", "c">>)], [k |-> "obj", value |-> Str(<<>>)]}
Events ==
  {Undefined} \cup
  [k : {"obj"}, type : {"update_column_value", "create_pulse"},
   columnId : {inputColumnId, resultColumnId}, pulseId : {Int2Num(p) : p \in PulseIds},
   value : EventValues]
Challenges == {Undefined, Str(<<"t", "o", "k">>), Str(<<>>)}
\* Undefined is a request whose body was never parsed into an object.
Bodies == {Undefined} \cup [k : {"obj"}, challenge : Challenges, event : Events]

(***************************************************************************)
(* State.                                                                  *)
(***************************************************************************)
VARIABLES
  factors,      \* the Factor collection: a set of documents
  history,      \* the History collection, in order of creation
  board,        \* the remote board: per item its input text and result text
  retryConfig,  \* finalRetryConfig of the MondayApiService
  reqs,         \* per handler: the position and the locals of its request
  arrivals,     \* number of requests received so far
  edits,        \* number of edits made to the remote input column
  quota,        \* number of requests the service receives in this behaviour
  traced        \* whether the executeWithRetry calls are recorded (execs)

vars == <<factors, history, board, retryConfig, reqs, arrivals, edits, quota, traced>>

\* A request that has not arrived yet.
IdleReq ==
  [pc |-> "idle", seq |-> 0, op |-> "none", body |-> Undefined, itemId |-> <<>>,
   newFactor |-> Undefined, triggeredBy |-> "none",
   factorDoc |-> Null, oldFactor |-> Null,
   readText |-> Null, inputValue |-> Null, resultValue |-> Null, wrote |-> Null,
   error |-> "none", attempt |-> 0, outcomes |-> <<>>, delays |-> <<>>, execs |-> <<>>,
   calcCalls |-> 0, calcResult |-> Null, ufResult |-> Null,
   apiError |-> Null, apiResult |-> Undefined,
   writeOutcome |-> "none", create |-> "none", limit |-> Null, found |-> <<>>, gfResult |-> Undefined,
   sent |-> 0, status |-> 0, reply |-> Null]

InitFactors == {{}, {FactorRow(0, Chars(123), Num(25, 1))}}

Init ==
  /\ factors \in InitFactors
  /\ history = <<>>
  /\ board = [i \in ItemIds |-> [input |-> Str(<<"1", "0">>), result |-> Null]]
  /\ retryConfig = defaultRetryConfig
  /\ reqs = [r \in Handlers |-> IdleReq]
  /\ arrivals = 0
  /\ quota = MaxRequests
  /\ edits = 0
  /\ traced = FALSE

(***************************************************************************)
(* MondayApiService: the retry policy and the payload of a response.       *)
(***************************************************************************)
\* The delay without the cap of maxDelay.
RetryDelayUncapped(cfg, attempt) == cfg.baseDelay * Pow(cfg.backoffFactor, attempt)

\* The delay slept after failed attempt number attempt (0-based).
RetryDelay(cfg, attempt) ==
  Min(cfg.baseDelay * Pow(cfg.backoffFactor, attempt), cfg.maxDelay)

\* The last attempt taken one round too late.
IsLastAttemptLate(cfg, attempt) == attempt = cfg.maxRetries + 1

\* attempt === retryConfig.maxRetries: the failure is surfaced, no retry.
IsLastAttempt(cfg, attempt) == attempt = cfg.maxRetries

\* A client whose promise is also rejected by a response with GraphQL errors.
RejectedWithGraphQLErrors == {"noResponse", "noResponseApplied", "status", "gqlErrors"}

\* A client whose promise is also rejected by an answer without item or
\* without acknowledgement.
RejectedWithNotFound ==
  {"noResponse", "noResponseApplied", "status", "okNoItem", "okNotAcked"}

\* Outcomes of one client.post: the promise is rejected (no response, or a
\* non-2xx status) or resolved (2xx, possibly carrying GraphQL errors).
Rejected == {"noResponse", "noResponseApplied", "status"}
ReadOutcomes == {"ok", "okNoItem", "gqlErrors", "noResponse", "status"}
WriteOutcomes == {"ok", "okNotAcked", "gqlErrors", "noResponse", "noResponseApplied", "status"}

\* The record of a finished executeWithRetry call: the outcome of each
\* attempt, the delays slept and how the call ended.
ExecLog(q, ctx, out, returned) ==
  [ctx |-> ctx, outcomes |-> Append(q.outcomes, out), delays |-> q.delays,
   returned |-> returned]

Record(execs, log) == IF traced THEN Append(execs, log) ELSE execs

\* executeWithRetry, one rejected attempt: rethrow on the last attempt,
\* otherwise sleep the delay and go round the loop.  onThrow is the pc of
\* the catch block of the caller.
RetryRejected(q, ctx, out, onThrow) ==
  IF IsLastAttempt(retryConfig, q.attempt)
  THEN [q EXCEPT !.pc = onThrow, !.error = out,
                 !.execs = Record(@, ExecLog(q, ctx, out, "throw")),
                 !.attempt = 0, !.outcomes = <<>>, !.delays = <<>>]
  ELSE [q EXCEPT !.attempt = @ + 1,
                 !.outcomes = IF traced THEN Append(@, out) ELSE @,
                 !.delays = Append(@, RetryDelay(retryConfig, q.attempt))]

\* Statuses of the non-2xx responses of the model.
StatusCodes == {429, 503}

\* An Error object: its message (a fixed text, then a part that varies) and
\* the two optional fields of ApiError.
ErrorObject(statusCode, text, detail) ==
  [statusCode |-> statusCode, message |-> [text |-> text, detail |-> detail],
   isOperational |-> statusCode # Undefined]

\* A handleApiError without the branch of error.request.
handleApiErrorNoRequestBranch(out, code) ==
  IF out = "status"
  THEN ErrorObject(Int2Num(code), "Monday API Error", Int2Num(code))
  ELSE ErrorObject(Int2Num(500), "Unexpected error occurred", Undefined)

\* handleApiError on the AxiosError of a rejected post: a response with a
\* non-2xx status, or a request that got no response.
handleApiError(out, code) ==
  IF out = "status"
  THEN ErrorObject(Int2Num(code), "Monday API Error", Int2Num(code))
  ELSE ErrorObject(Int2Num(503), "Monday API is unreachable", Undefined)

\* new Error(`Monday API Error: ${errors[0]?.message || 'Unknown error'}`)
GraphQLError == ErrorObject(Undefined, "Monday API Error", Str(<<"m", "s", "g">>))

\* new Error(`Item ${itemId} not found`)
ItemNotFoundError(itemId) == ErrorObject(Undefined, "Item not found", Str(itemId))

\* An updateColumnValue that takes every 2xx answer without errors for an
\* acknowledgement.
WriteAcknowledgedAlways(out) == out \in {"ok", "okNotAcked"}

\* An updateColumnValue that returns true for an answer whose
\* change_column_value is null.
WriteAcknowledgedWithoutId(out) == out \in {"ok", "okNotAcked"}

\* updateColumnValue returns !!response.data.data.change_column_value
WriteAcknowledged(out) == out = "ok"

\* executeWithRetry returns the response of a resolved attempt.
RetryResolved(q, ctx, out) ==
  [q EXCEPT !.execs = Record(@, ExecLog(q, ctx, out, "ok")),
            !.attempt = 0, !.outcomes = <<>>, !.delays = <<>>]

\* getColumnValue on a resolved response without errors: the text of the
\* first column value, or null.
ColumnText(out, itemId) ==
  IF out = "okNoItem" THEN Null ELSE OrElse(board[itemId].input, Null)

(***************************************************************************)
(* Factor and History collections.                                         *)
(***************************************************************************)
\* A findOne that answers with the schema's default factor 1 for an item
\* without document.
FindOneOrDefault(coll, itemId) ==
  IF \E d \in coll : d.itemId = itemId
  THEN CHOOSE d \in coll : d.itemId = itemId
  ELSE [id |-> 0, itemId |-> itemId, factor |-> Int2Num(1)]

\* Factor.findOne({ itemId })
FindOne(coll, itemId) ==
  IF \E d \in coll : d.itemId = itemId
  THEN CHOOSE d \in coll : d.itemId = itemId
  ELSE Null

\* The validation without min: 0.
FactorValidNoMin(f) == IsNum(f)

\* FactorSchema validation of the factor path: a number, min 0.
FactorValid(f) == IsNum(f) /\ f.m >= 0

\* An index that rejects a document when another item has one already.
DuplicateKeyOtherItem(coll, itemId) == \E d \in coll : d.itemId # itemId

\* A Factor collection without the unique index on itemId.
DuplicateKeyNoIndex(coll, itemId) == FALSE

\* The unique index on itemId rejects a second document for the item.
DuplicateKey(coll, itemId) == \E d \in coll : d.itemId = itemId

\* A create that replaces the document the item already has.
HistoryCreateUpsert(h, entry, ok) ==
  IF ok THEN Append(SelectSeq(h, LAMBDA e : e.itemId # entry.itemId), entry) ELSE h

\* A create that stores the document twice.
HistoryCreateTwice(h, entry, ok) == IF ok THEN Append(Append(h, entry), entry) ELSE h

\* History.create: the document is appended unless the store fails.
HistoryCreate(h, entry, ok) == IF ok THEN Append(h, entry) ELSE h

\* The documents of the item in the order of their creation.
RECURSIVE DocsOf(_, _)
DocsOf(h, itemId) ==
  IF h = <<>> THEN <<>>
  ELSE IF h[Len(h)].itemId = itemId
  THEN Append(DocsOf(SubSeq(h, 1, Len(h) - 1), itemId), h[Len(h)])
  ELSE DocsOf(SubSeq(h, 1, Len(h) - 1), itemId)

\* The find sorted by createdAt ascending.
HistoryFindOldestFirst(h, itemId, limit) ==
  LET docs == DocsOf(h, itemId)
      k == Min(Len(docs), limit)
  IN {[a \in 1..k |-> docs[a]]}

\* History.find({ itemId }).sort({ createdAt: -1 }).limit(limit): the
\* results the store may return.  Documents with the same createdAt come in
\* an order the store chooses, and it chooses which of them the limit cuts.
HistoryFind(h, itemId, limit) ==
  LET docs == DocsOf(h, itemId)
      I == 1..Len(docs)
      k == Min(Len(docs), limit)
      Sorted(g) ==
        /\ \A a, b \in 1..k : a # b => g[a] # g[b]
        /\ \A a \in 1..k : \A b \in 1..k :
             a < b => docs[g[a]].createdAt >= docs[g[b]].createdAt
        /\ \A i \in I : (\A a \in 1..k : g[a] # i) =>
             \A a \in 1..k : docs[i].createdAt <= docs[g[a]].createdAt
  IN {[a \in 1..k |-> docs[g[a]]] : g \in {f \in [1..k -> I] : Sorted(f)}}

\* A logger without the try/catch: the error of the create reaches the caller.
AppendErrorEscapesUncaught(ok) == ~ok

\* logCalculation and logFactorUpdate catch the error of History.create and
\* log it: it never reaches their caller.
AppendErrorEscapes(ok) == FALSE

Entry(r, q, action, oldValue, newValue, inputValue, resultValue, metadata) ==
  [itemId |-> q.itemId, action |-> action, oldValue |-> oldValue,
   newValue |-> newValue, inputValue |-> inputValue, resultValue |-> resultValue,
   triggeredBy |-> q.triggeredBy, metadata |-> metadata, req |-> q.seq,
   createdAt |-> 0]

\* timestamps: true.  createdAt is the reading of the clock when the document
\* is created, in milliseconds: never before the createdAt of the documents
\* created earlier, and possibly the same millisecond as the latest of them.
Timestamps(h) ==
  IF h = <<>> THEN {1} ELSE {h[Len(h)].createdAt, h[Len(h)].createdAt + 1}

Stamped(entry, t) == [entry EXCEPT !.createdAt = t]

\* `${inputValue} * ${factor} = ${resultValue}`
CalculationNote(inputValue, factor, resultValue) ==
  JsString(inputValue).s \o <<" ", "*", " ">> \o JsString(factor).s
    \o <<" ", "=", " ">> \o JsString(resultValue).s

logCalculationEntry(r, q) ==
  Entry(r, q, "recalculation", Undefined, q.resultValue, q.inputValue, q.resultValue,
        [factor |-> q.factorDoc.factor,
         calculation |-> CalculationNote(q.inputValue, q.factorDoc.factor, q.resultValue)])

logErrorEntry(r, q) ==
  Entry(r, q, "recalculation", Undefined, Int2Num(0), Undefined, Undefined,
        [error |-> q.error])

logFactorUpdateEntry(r, q) ==
  Entry(r, q, "factor_updated", q.oldFactor, q.newFactor, Undefined, Undefined,
        [change |-> IF Truthy(q.oldFactor) THEN "old -> new" ELSE "New factor"])

(***************************************************************************)
(* CalculationService: pure parts.                                         *)
(***************************************************************************)
\* The product taken of the input with itself.
calculateResultSquare(inputValue, factor) == Times(inputValue, inputValue)

calculateResult(inputValue, factor) == Times(inputValue, factor)

\* A validation that lets text without number through as 0.
validateInputValueLenient(inputValueText) ==
  IF IsNaN(parseFloat(inputValueText)) THEN Int2Num(0) ELSE parseFloat(inputValueText)

\* validateInputValue: the parsed number; NaN stands for the thrown error.
validateInputValue(inputValueText) == parseFloat(inputValueText)

CalcSuccess(q) ==
  [inputValue |-> q.inputValue, factor |-> q.factorDoc.factor,
   resultValue |-> q.resultValue, success |-> TRUE]
CalcFailure ==
  [inputValue |-> Int2Num(0), factor |-> Int2Num(0), resultValue |-> Int2Num(0),
   success |-> FALSE]

(***************************************************************************)
(* MondayWebhookHandler: pure parts.                                       *)
(***************************************************************************)
\* Reading req.body.challenge throws a TypeError when there is no body.
BodyReadThrowsOnMissingEvent(body) == body = Undefined \/ body.event = Undefined

BodyReadThrows(body) == body = Undefined

\* A challenge honoured only on payloads without an event.
HasChallengeWithoutEvent(body) == Truthy(body.challenge) /\ body.event = Undefined

\* if (req.body.challenge)
HasChallenge(body) == Truthy(body.challenge)

\* The filter without the comparison of the column.
shouldProcessAnyColumn(payload, colId) ==
  /\ payload.event # Undefined
  /\ payload.event.type = "update_column_value"

shouldProcessWebhook(payload, colId) ==
  /\ payload.event # Undefined
  /\ payload.event.type = "update_column_value"
  /\ payload.event.columnId = colId

\* value?.value
ValueOf(value) == IF value.k = "obj" THEN value.value ELSE Undefined

\* The parse that hands NaN on instead of null.
parseInputValueNaN(value) ==
  parseFloat(JsString(OrElse(ValueOf(value), Str(<<"0">>))))

\* parseInputValue: the parsed number, or null when it is NaN.
parseInputValue(value) ==
  LET parsed == parseFloat(JsString(OrElse(ValueOf(value), Str(<<"0">>))))
  IN IF IsNaN(parsed) THEN Null ELSE parsed

\* A call that leaves the trigger to the default of calculateAndUpdateResult.
WebhookTriggeredByDefault == "api"

\* calculateAndUpdateResult(String(itemId), 'webhook')
WebhookTriggeredBy == "webhook"

\* A handleColumnChange that throws when the recalculation failed.
handleColumnChangeRethrows(result) == ~result.success

\* handleColumnChange swallows whatever the recalculation reports: it
\* returns normally to handleWebhook.
handleColumnChangeThrows(result) == FALSE

(***************************************************************************)
(* Responses.                                                              *)
(***************************************************************************)
\* A handler that sends its response twice.
RespondTwice(q, status, reply) ==
  [q EXCEPT !.pc = "done", !.sent = @ + 2, !.status = status, !.reply = reply]

\* res.status(status).json(reply): the one response of the request.
Respond(q, status, reply) ==
  [q EXCEPT !.pc = "done", !.sent = @ + 1, !.status = status, !.reply = reply]

SuccessReply == [k |-> "success"]
ErrorReply(msg) == [k |-> "error", error |-> msg]
ChallengeReply(c) == [k |-> "challenge", challenge |-> c]

\* The caller's continuation once calculateAndUpdateResult has returned.
AfterCalc(q, result) ==
  LET q1 == [q EXCEPT !.calcResult = result] IN
  CASE q.op = "webhook" ->
         IF handleColumnChangeThrows(result)
         THEN Respond(q1, 500, ErrorReply("Internal server error"))
         ELSE Respond(q1, 200, SuccessReply)
    [] q.op = "postRecalculate" ->
         IF result.success
         THEN Respond(q1, 200, [k |-> "data", data |-> result])
         ELSE Respond(q1, 500, ErrorReply("Failed to recalculate result"))
    [] OTHER -> [q1 EXCEPT !.pc = "done"]

\* The caller's continuation once updateFactor has returned.
AfterUpdateFactor(q, result) ==
  LET q1 == [q EXCEPT !.ufResult = result] IN
  CASE q.op = "postFactor" ->
         IF result.success
         THEN Respond(q1, 201, [k |-> "data", data |-> result])
         ELSE Respond(q1, 500, ErrorReply("Failed to update factor"))
    [] OTHER -> [q1 EXCEPT !.pc = "done"]

UpdateFailure == [oldFactor |-> Null, newFactor |-> Int2Num(0), success |-> FALSE]

\* A request arrives at a free handler.
Arrives(r) ==
  /\ reqs[r].pc \in {"idle", "done"}
  /\ arrivals < quota
  /\ arrivals' = arrivals + 1

\* The fresh record of the request that arrives.
NewReq(op) == [IdleReq EXCEPT !.seq = arrivals + 1, !.op = op]

StartCalc(q, itemId, triggeredBy) ==
  [q EXCEPT !.pc = "calc_find", !.itemId = itemId, !.triggeredBy = triggeredBy,
            !.calcCalls = @ + 1]

(***************************************************************************)
(* Actions: the webhook endpoints.                                         *)
(***************************************************************************)
\* handleWebhook up to its first await.
HandleWebhook(r, body) ==
  /\ Arrives(r)
  /\ LET q == [NewReq("webhook") EXCEPT !.body = body] IN
     reqs' = [reqs EXCEPT ![r] =
       IF BodyReadThrows(body)
       THEN \* the catch block answers
            Respond(q, 500, ErrorReply("Internal server error"))
       ELSE IF HasChallenge(body)
       THEN Respond(q, 200, ChallengeReply(body.challenge))
       ELSE IF shouldProcessWebhook(body, inputColumnId)
       THEN IF parseInputValue(body.event.value) = Null
            THEN Respond(q, 200, SuccessReply)
            ELSE StartCalc(q, JsString(body.event.pulseId).s, WebhookTriggeredBy)
       ELSE Respond(q, 200, SuccessReply)]
  /\ UNCHANGED <<factors, history, board, retryConfig, quota, edits, traced>>

HandleWebhookVerification(r, body) ==
  /\ Arrives(r)
  /\ LET q == [NewReq("verify") EXCEPT !.body = body] IN
     reqs' = [reqs EXCEPT ![r] =
       IF body = Undefined
       THEN Respond(q, 500, ErrorReply("Internal server error"))
       ELSE IF Truthy(body.challenge)
       THEN Respond(q, 200, ChallengeReply(body.challenge))
       ELSE Respond(q, 400, ErrorReply("No challenge provided"))]
  /\ UNCHANGED <<factors, history, board, retryConfig, quota, edits, traced>>

(***************************************************************************)
(* Actions: the item routes and direct calls of the service.               *)
(***************************************************************************)
\* POST /:itemId/factor up to its first await.
PostFactor(r, itemId, factor) ==
  /\ Arrives(r)
  /\ LET q == [NewReq("postFactor") EXCEPT !.itemId = itemId, !.newFactor = factor,
                                         !.triggeredBy = "api"] IN
     reqs' = [reqs EXCEPT ![r] =
       IF ~IsNum(factor) \/ Negative(factor)
       THEN Respond(q, 400, ErrorReply("Factor must be a non-negative number"))
       ELSE [q EXCEPT !.pc = "uf_find"]]
  /\ UNCHANGED <<factors, history, board, retryConfig, quota, edits, traced>>

\* updateFactor called by another caller than the route.
CallUpdateFactor(r, itemId, factor) ==
  /\ Arrives(r)
  /\ IsNum(factor)
  /\ reqs' = [reqs EXCEPT ![r] =
       [NewReq("updateFactor") EXCEPT !.itemId = itemId, !.newFactor = factor,
                                      !.triggeredBy = "system", !.pc = "uf_find"]]
  /\ UNCHANGED <<factors, history, board, retryConfig, quota, edits, traced>>

\* POST /:itemId/recalculate up to its first await.
PostRecalculate(r, itemId) ==
  /\ Arrives(r)
  /\ reqs' = [reqs EXCEPT ![r] =
       StartCalc(NewReq("postRecalculate"), itemId, "api")]
  /\ UNCHANGED <<factors, history, board, retryConfig, quota, edits, traced>>

\* The caller's continuation once getFactor has returned.
AfterGetFactor(q, factor) ==
  LET q1 == [q EXCEPT !.gfResult = factor] IN
  CASE q.op = "getFactorRoute" ->
         IF factor = Null
         THEN Respond(q1, 404, ErrorReply("No factor found for item"))
         ELSE Respond(q1, 200, [k |-> "data", data |-> [itemId |-> q.itemId, factor |-> factor]])
    [] OTHER -> [q1 EXCEPT !.pc = "done"]

\* GET /:itemId/factor up to its first await.
GetFactorRoute(r, itemId) ==
  /\ Arrives(r)
  /\ reqs' = [reqs EXCEPT ![r] =
       [NewReq("getFactorRoute") EXCEPT !.itemId = itemId, !.pc = "gf_find"]]
  /\ UNCHANGED <<factors, history, board, retryConfig, quota, edits, traced>>

\* getFactor called by another caller than the route.
CallGetFactor(r, itemId) ==
  /\ Arrives(r)
  /\ reqs' = [reqs EXCEPT ![r] =
       [NewReq("getFactor") EXCEPT !.itemId = itemId, !.pc = "gf_find"]]
  /\ UNCHANGED <<factors, history, board, retryConfig, quota, edits, traced>>

\* getFactor: Factor.findOne, factorDoc?.factor || null, null when the
\* store fails; then the caller's continuation.
GetFactorFind(r) ==
  /\ reqs[r].pc = "gf_find"
  /\ \E dbOk \in BOOLEAN :
       LET q == reqs[r]
           doc == FindOne(factors, q.itemId)
       IN reqs' = [reqs EXCEPT ![r] =
            IF ~dbOk THEN AfterGetFactor([q EXCEPT !.error = "db"], Null)
            ELSE AfterGetFactor([q EXCEPT !.factorDoc = doc],
                                IF doc = Null THEN Null ELSE OrElse(doc.factor, Null))]
  /\ UNCHANGED <<factors, history, board, retryConfig, quota, arrivals, edits, traced>>

\* getItem or getColumnValue called on the MondayApiService.
CallClient(r, op, itemId) ==
  /\ Arrives(r)
  /\ reqs' = [reqs EXCEPT ![r] =
       [NewReq(op) EXCEPT !.itemId = itemId, !.pc = "api_post"]]
  /\ UNCHANGED <<factors, history, board, retryConfig, quota, edits, traced>>

\* One attempt of the client.post of getItem or getColumnValue and, when
\* executeWithRetry has returned or thrown, the rest of the function.
ClientPost(r) ==
  /\ reqs[r].pc = "api_post"
  /\ \E out \in ReadOutcomes, code \in StatusCodes :
       LET q == reqs[r]
           qt == RetryRejected(q, q.op, out, "done")
           qr == [RetryResolved(q, q.op, out) EXCEPT !.pc = "done", !.error = out]
       IN reqs' = [reqs EXCEPT ![r] =
            IF out \in Rejected
            THEN IF qt.pc = "done"
                 THEN [qt EXCEPT !.apiError = handleApiError(out, code)]
                 ELSE qt
            ELSE IF out = "gqlErrors"
            THEN [qr EXCEPT !.apiError = GraphQLError]
            ELSE IF q.op = "getItem"
            THEN IF out = "okNoItem"
                 THEN [qr EXCEPT !.apiError = ItemNotFoundError(q.itemId)]
                 ELSE [qr EXCEPT !.apiResult = [k |-> "obj", id |-> q.itemId]]
            ELSE [qr EXCEPT !.apiResult = ColumnText(out, q.itemId)]]
  /\ UNCHANGED <<factors, history, board, retryConfig, quota, arrivals, edits, traced>>

\* parseInt(req.query.limit) || 50
LimitOf(query) == OrElse(parseInt(query), Int2Num(50))

\* limit < 1 || limit > 100
LimitRejected(limit) == limit.m < 1 \/ limit.m > 100

\* GET /:itemId/history up to its first await.
GetHistory(r, itemId, query) ==
  /\ Arrives(r)
  /\ LET limit == LimitOf(query)
         q == [NewReq("getHistory") EXCEPT !.itemId = itemId, !.body = query,
                                          !.limit = limit] IN
     reqs' = [reqs EXCEPT ![r] =
       IF LimitRejected(limit)
       THEN Respond(q, 400, ErrorReply("Limit must be between 1 and 100"))
       ELSE [q EXCEPT !.pc = "gh_find"]]
  /\ UNCHANGED <<factors, history, board, retryConfig, quota, edits, traced>>

\* getHistory: History.find, [] when the store fails, and the response.
GetHistoryFind(r) ==
  /\ reqs[r].pc = "gh_find"
  /\ \E dbOk \in BOOLEAN : \E docs \in HistoryFind(history, reqs[r].itemId, reqs[r].limit.m) :
       LET q == reqs[r]
           found == IF dbOk THEN docs ELSE <<>>
       IN reqs' = [reqs EXCEPT ![r] =
            Respond([q EXCEPT !.found = found, !.error = IF dbOk THEN "none" ELSE "db"],
                    200, [k |-> "data", data |-> found])]
  /\ UNCHANGED <<factors, history, board, retryConfig, quota, arrivals, edits, traced>>

(***************************************************************************)
(* Actions: calculateAndUpdateResult, one action per await.                *)
(***************************************************************************)
\* Factor.findOne, then the start of getColumnValue.
CalcFindFactor(r) ==
  /\ reqs[r].pc = "calc_find"
  /\ \E dbOk \in BOOLEAN :
       LET q == reqs[r]
           doc == FindOne(factors, q.itemId)
       IN reqs' = [reqs EXCEPT ![r] =
            IF ~dbOk THEN [q EXCEPT !.pc = "calc_logError", !.error = "db"]
            ELSE IF doc = Null
            THEN [q EXCEPT !.pc = "calc_logError", !.error = "noFactor"]
            ELSE [q EXCEPT !.pc = "calc_read", !.factorDoc = doc]]
  /\ UNCHANGED <<factors, history, board, retryConfig, quota, arrivals, edits, traced>>

\* A recalculation that takes the number of the webhook event for its input.
InputValueTextOfEvent(q, out) ==
  IF q.op = "webhook" THEN JsString(ValueOf(q.body.event.value))
  ELSE ColumnText(out, q.itemId)

\* const inputValueText = await mondayApi.getColumnValue(itemId, inputColumnId)
InputValueText(q, out) == ColumnText(out, q.itemId)

\* A recalculation that looks the factor up again when the remote read has
\* returned.
FactorUsedStoredAtRead(q) == FindOne(factors, q.itemId).factor

\* calculateResult(inputValue, factorDoc.factor): the factor of the document
\* that Factor.findOne returned before the remote read.
FactorUsed(q) == q.factorDoc.factor

\* A calculateAndUpdateResult that calls getColumnValue again when it threw.
CatchOfReadReissues == "calc_read"

\* Where a throw of getColumnValue lands: the catch block of
\* calculateAndUpdateResult, which logs the error and returns.
CatchOfRead == "calc_logError"

\* One attempt of getColumnValue's client.post and, when it resolves, the
\* rest of getColumnValue and of the orchestrator up to updateColumnValue.
CalcRead(r) ==
  /\ reqs[r].pc = "calc_read"
  /\ \E out \in ReadOutcomes :
       LET q == reqs[r]
           qr == RetryResolved(q, "getColumnValue", out)
           text == InputValueText(q, out)
           inputValue == validateInputValue(text)
       IN reqs' = [reqs EXCEPT ![r] =
            IF out \in Rejected
            THEN RetryRejected(q, "getColumnValue", out, CatchOfRead)
            ELSE IF out = "gqlErrors"
            THEN [qr EXCEPT !.pc = "calc_logError", !.error = "graphql"]
            ELSE IF ~Truthy(text)
            THEN [qr EXCEPT !.pc = "calc_logError", !.error = "noInput", !.readText = text]
            ELSE IF IsNaN(inputValue)
            THEN [qr EXCEPT !.pc = "calc_logError", !.error = "invalidInput",
                            !.readText = text]
            ELSE [qr EXCEPT !.pc = "calc_write", !.readText = text,
                            !.inputValue = inputValue,
                            !.resultValue = calculateResult(inputValue, FactorUsed(q))]]
  /\ UNCHANGED <<factors, history, board, retryConfig, quota, arrivals, edits, traced>>

\* One attempt of updateColumnValue's client.post and, when it resolves,
\* the rest of updateColumnValue and the check of updateSuccess.
CalcWrite(r) ==
  /\ reqs[r].pc = "calc_write"
  /\ \E out \in WriteOutcomes :
       LET q == reqs[r]
           qr == RetryResolved(q, "updateColumnValue", out)
           value == JsString(q.resultValue)
           left(p) == [p EXCEPT !.writeOutcome = IF p.pc = "calc_write" THEN @ ELSE out]
       IN /\ reqs' = [reqs EXCEPT ![r] = left(
               IF out \in Rejected
               THEN RetryRejected(q, "updateColumnValue", out, "calc_logError")
               ELSE IF out = "gqlErrors"
               THEN [qr EXCEPT !.pc = "calc_logError", !.error = "graphql"]
               ELSE IF ~WriteAcknowledged(out)
               THEN [qr EXCEPT !.pc = "calc_logError", !.error = "writeFailed"]
               ELSE [qr EXCEPT !.pc = "calc_log", !.wrote = value])]
          /\ board' = IF out \in {"ok", "noResponseApplied"}
                      THEN [board EXCEPT ![q.itemId].result = value]
                      ELSE board
  /\ UNCHANGED <<factors, history, retryConfig, quota, arrivals, edits, traced>>

\* logCalculation, the return of the result and the caller's continuation.
CalcLog(r) ==
  /\ reqs[r].pc = "calc_log"
  /\ \E ok \in BOOLEAN, t \in Timestamps(history) :
       LET q == [reqs[r] EXCEPT !.create = IF ok THEN "ok" ELSE "failed"] IN
       /\ history' = HistoryCreate(history, Stamped(logCalculationEntry(r, q), t), ok)
       /\ reqs' = [reqs EXCEPT ![r] =
            IF AppendErrorEscapes(ok)
            THEN [q EXCEPT !.pc = "calc_logError", !.error = "history"]
            ELSE AfterCalc(q, CalcSuccess(q))]
  /\ UNCHANGED <<factors, board, retryConfig, quota, arrivals, edits, traced>>

\* The catch block: logError, the failure result, the caller's continuation.
CalcLogError(r) ==
  /\ reqs[r].pc = "calc_logError"
  /\ \E ok \in BOOLEAN, t \in Timestamps(history) :
       LET q == [reqs[r] EXCEPT !.create = IF ok THEN "ok" ELSE "failed"] IN
       /\ history' = HistoryCreate(history, Stamped(logErrorEntry(r, q), t), ok)
       /\ reqs' = [reqs EXCEPT ![r] = AfterCalc(q, CalcFailure)]
  /\ UNCHANGED <<factors, board, retryConfig, quota, arrivals, edits, traced>>

(***************************************************************************)
(* Actions: updateFactor, one action per await.                            *)
(***************************************************************************)
\* Factor.findOne; a store failure lands in the catch block.
UpdateFindFactor(r) ==
  /\ reqs[r].pc = "uf_find"
  /\ \E dbOk \in BOOLEAN :
       LET q == reqs[r]
           doc == FindOne(factors, q.itemId)
       IN reqs' = [reqs EXCEPT ![r] =
            IF ~dbOk THEN AfterUpdateFactor([q EXCEPT !.error = "db"], UpdateFailure)
            ELSE [q EXCEPT !.pc = "uf_save", !.factorDoc = doc,
                           !.oldFactor = IF doc = Null THEN Null
                                         ELSE OrElse(doc.factor, Null)]]
  /\ UNCHANGED <<factors, history, board, retryConfig, quota, arrivals, edits, traced>>

\* An updateFactor that goes on to logFactorUpdate after a failed write.
WriteErrorIgnored(fails) == FALSE

\* A save() or create() that fails throws: updateFactor leaves its try block
\* for the catch block before logFactorUpdate.
WriteErrorThrown(fails) == fails

\* existingFactor.save() or Factor.create(): validation, then the write.
UpdateSaveFactor(r) ==
  /\ reqs[r].pc = "uf_save"
  /\ \E dbOk \in BOOLEAN :
       LET q == reqs[r]
           create == q.factorDoc = Null
           fails == \/ ~FactorValid(q.newFactor)
                    \/ ~dbOk
                    \/ create /\ DuplicateKey(factors, q.itemId)
       IN /\ reqs' = [reqs EXCEPT ![r] =
               IF WriteErrorThrown(fails)
               THEN AfterUpdateFactor([q EXCEPT !.error = "save"], UpdateFailure)
               ELSE [q EXCEPT !.pc = "uf_log"]]
          /\ factors' =
               IF fails THEN factors
               ELSE IF create
               THEN factors \cup {FactorRow(q.seq, q.itemId, q.newFactor)}
               ELSE {IF d.id = q.factorDoc.id THEN [d EXCEPT !.factor = q.newFactor] ELSE d
                       : d \in factors}
  /\ UNCHANGED <<history, board, retryConfig, quota, arrivals, edits, traced>>

\* logFactorUpdate, the return of the result and the caller's continuation.
UpdateLog(r) ==
  /\ reqs[r].pc = "uf_log"
  /\ \E ok \in BOOLEAN, t \in Timestamps(history) :
       LET q == [reqs[r] EXCEPT !.create = IF ok THEN "ok" ELSE "failed"] IN
       /\ history' = HistoryCreate(history, Stamped(logFactorUpdateEntry(r, q), t), ok)
       /\ reqs' = [reqs EXCEPT ![r] =
            IF AppendErrorEscapes(ok)
            THEN AfterUpdateFactor([q EXCEPT !.error = "history"], UpdateFailure)
            ELSE AfterUpdateFactor(q, [oldFactor |-> q.oldFactor, newFactor |-> q.newFactor,
                                       success |-> TRUE])]
  /\ UNCHANGED <<factors, board, retryConfig, quota, arrivals, edits, traced>>

(***************************************************************************)
(* The environment: a user edits the input column on the remote board.     *)
(***************************************************************************)
BoardEdit(itemId, text) ==
  /\ edits < MaxEdits
  /\ board[itemId].input # text
  /\ board' = [board EXCEPT ![itemId].input = text]
  /\ edits' = edits + 1
  /\ UNCHANGED <<factors, history, retryConfig, quota, reqs, arrivals, traced>>

(***************************************************************************)
(* Spec: the calculation service behind the item routes and its direct     *)
(* callers, over the default retry configuration.                          *)
(***************************************************************************)
Next ==
  \/ \E r \in Handlers, i \in ItemIds, f \in FactorInputs : PostFactor(r, i, f)
  \/ \E r \in Handlers, i \in ItemIds, f \in FactorInputs : CallUpdateFactor(r, i, f)
  \/ \E r \in Handlers, i \in ItemIds : PostRecalculate(r, i)
  \/ \E r \in Handlers : CalcFindFactor(r)
  \/ \E r \in Handlers : CalcRead(r)
  \/ \E r \in Handlers : CalcWrite(r)
  \/ \E r \in Handlers : CalcLog(r)
  \/ \E r \in Handlers : CalcLogError(r)
  \/ \E r \in Handlers : UpdateFindFactor(r)
  \/ \E r \in Handlers : UpdateSaveFactor(r)
  \/ \E r \in Handlers : UpdateLog(r)
  \/ \E i \in ItemIds, t \in InputTexts : BoardEdit(i, t)

Spec == Init /\ [][Next]_vars

(***************************************************************************)
(* SpecWebhook: the two webhook endpoints and the recalculations they      *)
(* trigger.                                                                *)
(***************************************************************************)
InitWebhook ==
  /\ factors \in InitFactors
  /\ history = <<>>
  /\ \E t \in {Str(<<"1", "0">>), Str(<<"a", "b", "c">>)} :
       board = [i \in ItemIds |-> [input |-> t, result |-> Null]]
  /\ retryConfig = defaultRetryConfig
  /\ reqs = [r \in Handlers |-> IdleReq]
  /\ arrivals = 0
  /\ quota = MaxRequests
  /\ edits = 0
  /\ traced = FALSE

NextWebhook ==
  \/ \E r \in Handlers, body \in Bodies : HandleWebhook(r, body)
  \/ \E r \in Handlers, body \in Bodies : HandleWebhookVerification(r, body)
  \/ \E r \in Handlers : CalcFindFactor(r)
  \/ \E r \in Handlers : CalcRead(r)
  \/ \E r \in Handlers : CalcWrite(r)
  \/ \E r \in Handlers : CalcLog(r)
  \/ \E r \in Handlers : CalcLogError(r)

SpecWebhook == InitWebhook /\ [][NextWebhook]_vars

(***************************************************************************)
(* SpecRetry: recalculations under every retry configuration of the model, *)
(* with the executeWithRetry calls recorded.                               *)
(***************************************************************************)
RetryConfigs ==
  {defaultRetryConfig} \cup
  [maxRetries : 0..MaxRetriesInput, baseDelay : {DefaultBaseDelay, 6 * DefaultBaseDelay},
   maxDelay : {DefaultMaxDelay}, backoffFactor : {1, DefaultBackoffFactor, 3}]

InitRetry ==
  /\ factors = {FactorRow(0, Chars(123), Num(25, 1))}
  /\ history = <<>>
  /\ board = [i \in ItemIds |-> [input |-> Str(<<"1", "0">>), result |-> Null]]
  /\ retryConfig \in RetryConfigs
  /\ reqs = [r \in Handlers |-> IdleReq]
  /\ arrivals = 0
  /\ quota = MaxRequests
  /\ edits = 0
  /\ traced = TRUE

NextRetry ==
  \/ \E r \in Handlers, i \in ItemIds : PostRecalculate(r, i)
  \/ \E r \in Handlers : CalcFindFactor(r)
  \/ \E r \in Handlers : CalcRead(r)
  \/ \E r \in Handlers : CalcWrite(r)
  \/ \E r \in Handlers : CalcLog(r)
  \/ \E r \in Handlers : CalcLogError(r)

SpecRetry == InitRetry /\ [][NextRetry]_vars

(***************************************************************************)
(* SpecHistory: failed recalculations of items without factor fill the     *)
(* History collection, and the history route queries it.                   *)
(***************************************************************************)
\* Number of requests in a behaviour of SpecHistory.
MaxHistoryRequests == 4

InitHistory ==
  /\ factors = {}
  /\ history = <<>>
  /\ board = [i \in ItemIds |-> [input |-> Str(<<"1", "0">>), result |-> Null]]
  /\ retryConfig = defaultRetryConfig
  /\ reqs = [r \in Handlers |-> IdleReq]
  /\ arrivals = 0
  /\ quota = MaxHistoryRequests
  /\ edits = 0
  /\ traced = FALSE

NextHistory ==
  \/ \E r \in Handlers, i \in ItemIds : PostRecalculate(r, i)
  \/ \E r \in Handlers : CalcFindFactor(r)
  \/ \E r \in Handlers : CalcLogError(r)
  \/ \E r \in Handlers, i \in ItemIds, l \in LimitQueries : GetHistory(r, i, l)
  \/ \E r \in Handlers : GetHistoryFind(r)

SpecHistory == InitHistory /\ [][NextHistory]_vars

(***************************************************************************)
(* SpecFactor: the factor store written by updateFactor and read back by   *)
(* getFactor.                                                              *)
(***************************************************************************)
\* Number of requests in a behaviour of SpecFactor.
MaxFactorRequests == 2

InitFactor ==
  /\ factors \in InitFactors
  /\ history = <<>>
  /\ board = [i \in ItemIds |-> [input |-> Str(<<"1", "0">>), result |-> Null]]
  /\ retryConfig = defaultRetryConfig
  /\ reqs = [r \in Handlers |-> IdleReq]
  /\ arrivals = 0
  /\ quota = MaxFactorRequests
  /\ edits = 0
  /\ traced = FALSE

NextFactor ==
  \/ \E r \in Handlers, i \in ItemIds, f \in FactorInputs : PostFactor(r, i, f)
  \/ \E r \in Handlers, i \in ItemIds, f \in FactorInputs : CallUpdateFactor(r, i, f)
  \/ \E r \in Handlers : UpdateFindFactor(r)
  \/ \E r \in Handlers : UpdateSaveFactor(r)
  \/ \E r \in Handlers : UpdateLog(r)
  \/ \E r \in Handlers, i \in ItemIds : GetFactorRoute(r, i)
  \/ \E r \in Handlers, i \in ItemIds : CallGetFactor(r, i)
  \/ \E r \in Handlers : GetFactorFind(r)

SpecFactor == InitFactor /\ [][NextFactor]_vars

(***************************************************************************)
(* SpecClient: getItem and getColumnValue called on the MondayApiService.  *)
(***************************************************************************)
InitClient ==
  /\ factors = {}
  /\ history = <<>>
  /\ \E t \in InputTexts : board = [i \in ItemIds |-> [input |-> t, result |-> Null]]
  /\ retryConfig \in {defaultRetryConfig, [defaultRetryConfig EXCEPT !.maxRetries = 0]}
  /\ reqs = [r \in Handlers |-> IdleReq]
  /\ arrivals = 0
  /\ quota = MaxRequests
  /\ edits = 0
  /\ traced = FALSE

NextClient ==
  \/ \E r \in Handlers, op \in {"getItem", "getColumnValue"}, i \in ItemIds :
       CallClient(r, op, i)
  \/ \E r \in Handlers : ClientPost(r)

SpecClient == InitClient /\ [][NextClient]_vars

(***************************************************************************)
(* SpecConcurrent: two requests for the same item in progress at the same  *)
(* time, their awaits interleaved, while a user edits the input column.    *)
(***************************************************************************)
\* Express runs a handler up to its next await and then serves another
\* request: two requests are in progress at once, one per handler.
ConcurrentHandlers == {"h1", "h2"}

ConcurrentItem == Chars(123)
ConcurrentFactors == {Num(2, 0), Num(-1, 0)}
ConcurrentBody ==
  [k |-> "obj", challenge |-> Undefined,
   event |-> [k |-> "obj", type |-> "update_column_value", columnId |-> inputColumnId,
              pulseId |-> Int2Num(123), value |-> [k |-> "obj", value |-> Int2Num(10)]]]
EditedText == Str(<<"2", "0">>)

InitConcurrent ==
  /\ factors \in InitFactors
  /\ history = <<>>
  /\ board = [i \in ItemIds |-> [input |-> Str(<<"1", "0">>), result |-> Null]]
  /\ retryConfig = [defaultRetryConfig EXCEPT !.maxRetries = 0]
  /\ reqs = [r \in ConcurrentHandlers |-> IdleReq]
  /\ arrivals = 0
  /\ quota = Cardinality(ConcurrentHandlers)
  /\ edits = 0
  /\ traced = FALSE

NextConcurrent ==
  \/ \E r \in ConcurrentHandlers, f \in ConcurrentFactors : PostFactor(r, ConcurrentItem, f)
  \/ \E r \in ConcurrentHandlers, f \in ConcurrentFactors :
       CallUpdateFactor(r, ConcurrentItem, f)
  \/ \E r \in ConcurrentHandlers : PostRecalculate(r, ConcurrentItem)
  \/ \E r \in ConcurrentHandlers : HandleWebhook(r, ConcurrentBody)
  \/ \E r \in ConcurrentHandlers : GetFactorRoute(r, ConcurrentItem)
  \/ \E r \in ConcurrentHandlers : CallGetFactor(r, ConcurrentItem)
  \/ \E r \in ConcurrentHandlers : GetHistory(r, ConcurrentItem, Undefined)
  \/ \E r \in ConcurrentHandlers : GetFactorFind(r)
  \/ \E r \in ConcurrentHandlers : GetHistoryFind(r)
  \/ \E r \in ConcurrentHandlers : CalcFindFactor(r)
  \/ \E r \in ConcurrentHandlers : CalcRead(r)
  \/ \E r \in ConcurrentHandlers : CalcWrite(r)
  \/ \E r \in ConcurrentHandlers : CalcLog(r)
  \/ \E r \in ConcurrentHandlers : CalcLogError(r)
  \/ \E r \in ConcurrentHandlers : UpdateFindFactor(r)
  \/ \E r \in ConcurrentHandlers : UpdateSaveFactor(r)
  \/ \E r \in ConcurrentHandlers : UpdateLog(r)
  \/ BoardEdit(ConcurrentItem, EditedText)

SpecConcurrent == InitConcurrent /\ [][NextConcurrent]_vars

(***************************************************************************)
(* Properties.                                                             *)
(***************************************************************************)
\* Number of History documents the request numbered n has appended.
EntriesOf(n) == Cardinality({i \in 1..Len(history) : history[i].req = n})

IsCalc(q) == q.calcCalls > 0
CalcDone(q) == IsCalc(q) /\ q.pc = "done"

\* C1: a calculateAndUpdateResult that returns success:true returns as
\* inputValue the number v parsed from the text its remote read returned, as
\* factor the factor f stored for the item, as resultValue the product v * f,
\* and the value acknowledged as written to the result column is String(v * f).
C1_SuccessResult ==
  \A r \in Handlers :
    LET q == reqs[r] IN
    (CalcDone(q) /\ q.calcResult.success) =>
      LET v == parseFloat(q.readText)
          f == FindOne(factors, q.itemId).factor
      IN /\ IsNum(v)
         /\ q.calcResult.inputValue = v
         /\ q.calcResult.factor = f
         /\ q.calcResult.resultValue = Times(v, f)
         /\ q.wrote = JsString(Times(v, f))
         /\ board[q.itemId].result = JsString(Times(v, f))

\* Factor 2.5 and input "10": 25 returned and "25" written.
C1_Witness ==
  \E r \in Handlers :
    /\ CalcDone(reqs[r]) /\ reqs[r].calcResult.success
    /\ reqs[r].readText = Str(<<"1", "0">>)
    /\ reqs[r].calcResult =
         [inputValue |-> Int2Num(10), factor |-> Num(25, 1),
          resultValue |-> Int2Num(25), success |-> TRUE]
    /\ board[reqs[r].itemId].result = Str(<<"2", "5">>)

\* C2 as claimed: every finished calculateAndUpdateResult has appended
\* exactly one History document, also when the append fails.
C2_ExactlyOneEntry ==
  \A r \in Handlers : CalcDone(reqs[r]) => EntriesOf(reqs[r].seq) = 1

\* C2 amended: a calculateAndUpdateResult attempts exactly one append; it
\* leaves one recalculation document when History.create succeeds and none
\* when it fails, and never two; nothing is appended before it finishes.
C2_OneEntryUnlessAppendFails ==
  \A r \in Handlers :
    LET q == reqs[r] IN
    /\ (IsCalc(q) /\ q.pc # "done") => (EntriesOf(q.seq) = 0 /\ q.create = "none")
    /\ CalcDone(q) =>
         /\ q.create \in {"ok", "failed"}
         /\ EntriesOf(q.seq) = IF q.create = "ok" THEN 1 ELSE 0
         /\ \A i \in 1..Len(history) :
              history[i].req = q.seq => history[i].action = "recalculation"

\* A recalculation whose remote write was acknowledged and whose append failed.
C2_Witness ==
  \E r \in Handlers :
    /\ CalcDone(reqs[r]) /\ reqs[r].calcResult.success
    /\ reqs[r].create = "failed"
    /\ EntriesOf(reqs[r].seq) = 0

\* C3: no step of an updateFactor with a factor < 0, through the route or
\* called directly, changes the Factor collection or appends to History, and
\* the call ends rejected (400 from the route, success:false from the service).
C3_NegativeFactorRejected ==
  [][\A r \in Handlers :
       LET q == reqs'[r] IN
       (q # reqs[r] /\ q.op \in {"postFactor", "updateFactor"} /\ Negative(q.newFactor)) =>
         /\ factors' = factors
         /\ history' = history
         /\ q.pc = "done" =>
              /\ q.op = "postFactor" => (q.status = 400 /\ q.ufResult = Null)
              /\ q.op = "updateFactor" => (q.ufResult # Null /\ ~q.ufResult.success)]_vars

\* A direct updateFactor(-1) on an item with a stored factor, rejected at save.
C3_Witness ==
  \E r \in Handlers :
    /\ reqs[r].op = "updateFactor" /\ Negative(reqs[r].newFactor)
    /\ reqs[r].pc = "done" /\ reqs[r].error = "save"
    /\ reqs[r].factorDoc # Null
    /\ FindOne(factors, reqs[r].itemId).factor = Num(25, 1)

\* The delay the policy prescribes after failed attempt i (0-based).
PolicyDelay(i) ==
  LET d == retryConfig.baseDelay * Pow(retryConfig.backoffFactor, i)
  IN IF d < retryConfig.maxDelay THEN d ELSE retryConfig.maxDelay

DelaysFollowPolicy(delays) ==
  \A j \in 1..Len(delays) : delays[j] = PolicyDelay(j - 1)

AllRejected(outcomes, n) == \A j \in 1..n : outcomes[j] \in Rejected

\* C4: an executeWithRetry call whose first k attempts are rejected
\* (k <= maxRetries) goes on to attempt k + 1, and when that attempt resolves
\* it returns the response after exactly k + 1 attempts, having slept
\* min(baseDelay * backoffFactor^i, maxDelay) after failed attempt i.
C4_RetryThenSuccess ==
  \A r \in Handlers :
    LET q == reqs[r] IN
    /\ q.pc \in {"calc_read", "calc_write"} =>
         /\ q.attempt = Len(q.outcomes)
         /\ q.attempt <= retryConfig.maxRetries
         /\ AllRejected(q.outcomes, q.attempt)
         /\ Len(q.delays) = q.attempt
         /\ DelaysFollowPolicy(q.delays)
    /\ \A i \in 1..Len(q.execs) :
         LET e == q.execs[i]
             k == Len(e.outcomes) - 1
         IN e.returned = "ok" =>
              /\ k >= 0 /\ k <= retryConfig.maxRetries
              /\ AllRejected(e.outcomes, k)
              /\ e.outcomes[k + 1] \notin Rejected
              /\ Len(e.delays) = k
              /\ DelaysFollowPolicy(e.delays)

\* Two rejected attempts, then a response, with the second delay capped.
C4_Witness ==
  \E r \in Handlers : \E i \in 1..Len(reqs[r].execs) :
    /\ reqs[r].execs[i].returned = "ok"
    /\ Len(reqs[r].execs[i].outcomes) = 3
    /\ reqs[r].execs[i].delays = <<6 * DefaultBaseDelay, DefaultMaxDelay>>

\* C5: an executeWithRetry call that ends by throwing has made exactly
\* maxRetries + 1 attempts, all rejected, slept maxRetries delays (none after
\* the last attempt), and is the last remote call of its caller, which
\* reports the failure.
C5_RetryExhaustion ==
  \A r \in Handlers :
    LET q == reqs[r] IN
    \A i \in 1..Len(q.execs) :
      LET e == q.execs[i] IN
      e.returned = "throw" =>
        /\ Len(e.outcomes) = retryConfig.maxRetries + 1
        /\ AllRejected(e.outcomes, Len(e.outcomes))
        /\ Len(e.delays) = retryConfig.maxRetries
        /\ i = Len(q.execs)
        /\ q.attempt = 0 /\ q.delays = <<>>
        /\ q.pc \in {"calc_logError", "done"}
        /\ q.error \in Rejected
        /\ q.pc = "done" => ~q.calcResult.success

\* Four rejected attempts under the default configuration.
C5_Witness ==
  \E r \in Handlers : \E i \in 1..Len(reqs[r].execs) :
    /\ retryConfig = defaultRetryConfig
    /\ reqs[r].execs[i].returned = "throw"
    /\ reqs[r].execs[i].delays = <<1000, 2000, 4000>>
    /\ reqs[r].pc = "done"

\* A webhook delivery that carries an event.
IsDelivery(q) == q.op = "webhook" /\ q.body # Undefined /\ q.body.event # Undefined
NoChallenge(q) == ~Truthy(q.body.challenge)
AcceptedEvent(q) ==
  /\ q.body.event.type = "update_column_value"
  /\ q.body.event.columnId = inputColumnId
Acknowledged(q) == q.pc = "done" /\ q.sent = 1 /\ q.status = 200 /\ q.reply = SuccessReply
NoSideEffect(q) ==
  /\ q.calcCalls = 0 /\ q.attempt = 0 /\ q.readText = Null /\ q.wrote = Null
  /\ q.create = "none" /\ EntriesOf(q.seq) = 0

\* C6: a delivered event of another type or another column never calls
\* calculateAndUpdateResult (no remote read, remote write or History append),
\* and the sender of such an event is answered 200 {success:true}.
C6_FilteredEventIgnored ==
  \A r \in Handlers :
    LET q == reqs[r] IN
    (IsDelivery(q) /\ ~AcceptedEvent(q)) =>
      /\ NoSideEffect(q)
      /\ NoChallenge(q) => Acknowledged(q)

\* An update_column_value event of the result column, acknowledged.
C6_Witness ==
  \E r \in Handlers :
    /\ IsDelivery(reqs[r]) /\ NoChallenge(reqs[r])
    /\ reqs[r].body.event.type = "update_column_value"
    /\ reqs[r].body.event.columnId = resultColumnId
    /\ Acknowledged(reqs[r])

\* event.value.value
EventValue(q) == ValueOf(q.body.event.value)
\* The value is there (not missing, null, empty or zero) and is no number.
PresentUnparsable(v) == Truthy(v) /\ IsNaN(parseFloat(JsString(v)))
Missing(v) == v \in {Undefined, Null, Str(<<>>)}

\* C7 as claimed: an accepted event whose value.value is unparsable, missing,
\* null or empty never calls calculateAndUpdateResult and is answered 200.
C7_UnparsableNeverTriggers ==
  \A r \in Handlers :
    LET q == reqs[r] IN
    (IsDelivery(q) /\ NoChallenge(q) /\ AcceptedEvent(q)
       /\ (PresentUnparsable(EventValue(q)) \/ Missing(EventValue(q)))) =>
      (q.calcCalls = 0 /\ Acknowledged(q))

\* C7 amended: an accepted event whose value.value is present and is no
\* number never calls calculateAndUpdateResult and is answered 200
\* {success:true}; a missing, null or empty value.value is read as "0" and
\* does call calculateAndUpdateResult.
C7_PresentUnparsableNeverTriggers ==
  \A r \in Handlers :
    LET q == reqs[r] IN
    (IsDelivery(q) /\ NoChallenge(q) /\ AcceptedEvent(q)) =>
      /\ PresentUnparsable(EventValue(q)) => (NoSideEffect(q) /\ Acknowledged(q))
      /\ Missing(EventValue(q)) => q.calcCalls = 1

\* An accepted event with value.value "abc", dropped and acknowledged.
C7_Witness ==
  \E r \in Handlers :
    /\ IsDelivery(reqs[r]) /\ NoChallenge(reqs[r]) /\ AcceptedEvent(reqs[r])
    /\ EventValue(reqs[r]) = Str(<<"a", "b", "c">>)
    /\ Acknowledged(reqs[r]) /\ reqs[r].calcCalls = 0

Echoed(q) ==
  /\ q.pc = "done" /\ q.sent = 1 /\ q.status = 200
  /\ q.reply = ChallengeReply(q.body.challenge)

\* C8 as claimed: a payload with a challenge field, whatever its value, is
\* answered by both endpoints with 200 and that challenge, without any
\* recalculation.
C8_AnyChallengeEchoed ==
  \A r \in Handlers :
    LET q == reqs[r] IN
    (q.op \in {"webhook", "verify"} /\ q.body # Undefined /\ q.body.challenge # Undefined) =>
      (Echoed(q) /\ NoSideEffect(q))

\* C8 amended: a payload whose challenge is truthy (a non-empty string) is
\* answered by both endpoints with 200 and that exact challenge, whatever
\* else it contains, without any recalculation, remote call or append.
C8_TruthyChallengeEchoed ==
  \A r \in Handlers :
    LET q == reqs[r] IN
    (q.op \in {"webhook", "verify"} /\ q.body # Undefined /\ Truthy(q.body.challenge)) =>
      (Echoed(q) /\ NoSideEffect(q))

\* A challenge echoed by handleWebhook although the payload also carries an
\* event that passes the filter with a number.
C8_Witness ==
  \E r \in Handlers :
    /\ IsDelivery(reqs[r]) /\ Truthy(reqs[r].body.challenge) /\ AcceptedEvent(reqs[r])
    /\ EventValue(reqs[r]) = Int2Num(10)
    /\ Echoed(reqs[r])

\* C9: a delivered event that passes the filter is answered 200
\* {success:true}, exactly once, whatever the recalculation did: no factor,
\* invalid input, remote failure after the retries, failed append, store error.
C9_AcceptedAlwaysAcknowledged ==
  \A r \in Handlers :
    LET q == reqs[r] IN
    (IsDelivery(q) /\ NoChallenge(q) /\ AcceptedEvent(q)) =>
      /\ q.pc = "done" => Acknowledged(q)
      /\ q.pc # "done" => q.sent = 0

\* A recalculation that gave up after the retries and whose append failed.
C9_Witness ==
  \E r \in Handlers :
    /\ IsDelivery(reqs[r]) /\ NoChallenge(reqs[r]) /\ AcceptedEvent(reqs[r])
    /\ reqs[r].calcCalls = 1 /\ reqs[r].pc = "done"
    /\ ~reqs[r].calcResult.success
    /\ reqs[r].error \in Rejected /\ reqs[r].create = "failed"
    /\ reqs[r].status = 200

\* The payload has a body but neither an event envelope nor a challenge.
NoEnvelope(q) ==
  q.op = "webhook" /\ q.body # Undefined /\ q.body.event = Undefined
    /\ q.body.challenge = Undefined

\* C10 as claimed: a delivery without event envelope (and without
\* challenge), or without a parsed body, is answered 500 and never
\* {success:true}.
C10_MalformedIsServerError ==
  \A r \in Handlers :
    LET q == reqs[r] IN
    (q.op = "webhook" /\ (q.body = Undefined \/ NoEnvelope(q))) =>
      (q.pc = "done" /\ q.status = 500 /\ q.reply # SuccessReply)

\* C10 amended: a delivery that reaches handleWebhook without a body object
\* is answered 500 and never {success:true}; a payload that has a body but no
\* event envelope (and no challenge) is acknowledged 200 {success:true} as an
\* ignored event, without any recalculation.
C10_OnlyMissingBodyIsServerError ==
  \A r \in Handlers :
    LET q == reqs[r] IN
    /\ (q.op = "webhook" /\ q.body = Undefined) =>
         (q.pc = "done" /\ q.sent = 1 /\ q.status = 500 /\ q.reply # SuccessReply)
    /\ NoEnvelope(q) => (Acknowledged(q) /\ NoSideEffect(q))

\* A payload {} acknowledged with {success:true}.
C10_Witness ==
  \E r \in Handlers : NoEnvelope(reqs[r]) /\ Acknowledged(reqs[r])

\* A history request whose query the store has answered.
HistoryAnswered(q) ==
  q.op = "getHistory" /\ q.pc = "done" /\ q.status = 200 /\ q.error = "none"

\* The k most recently appended of docs, the newest first.
Newest(docs, k) ==
  [a \in 1..Min(Len(docs), k) |-> docs[Len(docs) + 1 - a]]

DistinctStamps(docs) ==
  \A a, b \in 1..Len(docs) : a # b => docs[a].createdAt # docs[b].createdAt

\* C11 as claimed: an answered getHistory(itemId, limit) returns exactly the
\* min(N, limit) most recently appended documents of the item, the newest
\* first.
C11_NewestAppendedFirst ==
  \A r \in Handlers :
    LET q == reqs[r] IN
    HistoryAnswered(q) => q.found = Newest(DocsOf(history, q.itemId), q.limit.m)

\* C11 amended: an answered getHistory(itemId, limit) returns min(N, limit)
\* different documents of the item and none of another item, in descending
\* order of createdAt, and no document it leaves out has a later createdAt
\* than one it returns; when the createdAt of the item's documents are all
\* different these are the most recently appended ones, the newest first.
C11_NewestByCreatedAt ==
  \A r \in Handlers :
    LET q == reqs[r]
        docs == DocsOf(history, q.itemId)
        k == Len(q.found)
    IN HistoryAnswered(q) =>
         /\ q.limit.m \in 1..100
         /\ k = Min(Len(docs), q.limit.m)
         /\ \A a \in 1..k :
              /\ q.found[a].itemId = q.itemId
              /\ \E i \in 1..Len(docs) : docs[i] = q.found[a]
              /\ \A b \in 1..k : a < b =>
                   /\ q.found[a] # q.found[b]
                   /\ q.found[a].createdAt >= q.found[b].createdAt
              /\ \A i \in 1..Len(docs) :
                   (\A b \in 1..k : q.found[b] # docs[i]) =>
                     docs[i].createdAt <= q.found[a].createdAt
         /\ DistinctStamps(docs) => q.found = Newest(docs, q.limit.m)

\* Two documents of item 123 around one of item 999, and limit 1: the
\* answer is the later document of item 123 alone.
C11_Witness ==
  \E r \in Handlers :
    /\ HistoryAnswered(reqs[r]) /\ reqs[r].itemId = Chars(123)
    /\ reqs[r].limit = Int2Num(1)
    /\ Len(history) = 3
    /\ history[1].itemId = Chars(123) /\ history[2].itemId = Chars(999)
    /\ history[3].itemId = Chars(123)
    /\ reqs[r].found = <<history[3]>>

NoFactorStored(itemId) == \A d \in factors : d.itemId # itemId

\* The documents the request numbered n has appended.
DocsOfReq(n) == SelectSeq(history, LAMBDA e : e.req = n)

IsFailureEntry(e) ==
  /\ e.action = "recalculation" /\ e.newValue = Int2Num(0)
  /\ "error" \in DOMAIN e.metadata
  /\ e.inputValue = Undefined /\ e.resultValue = Undefined

\* The request never called the remote board.
NoRemoteCall(q) == q.attempt = 0 /\ q.readText = Null /\ q.wrote = Null /\ q.execs = <<>>

\* C12: a calculateAndUpdateResult for an item without stored factor never
\* reaches the remote read or the remote write, returns success:false, and
\* makes one History append, of a recalculation document with newValue 0 and
\* an error note, which the collection holds when the store accepted it.
C12_NoFactorFails ==
  \A r \in Handlers :
    LET q == reqs[r] IN
    (IsCalc(q) /\ NoFactorStored(q.itemId)) =>
      /\ q.pc \in {"calc_find", "calc_logError", "done"}
      /\ NoRemoteCall(q)
      /\ board[q.itemId].result = Null
      /\ q.pc = "done" =>
           /\ ~q.calcResult.success
           /\ q.create \in {"ok", "failed"}
           /\ q.create = "ok" =>
                /\ Len(DocsOfReq(q.seq)) = 1
                /\ IsFailureEntry(DocsOfReq(q.seq)[1])
                /\ DocsOfReq(q.seq)[1].itemId = q.itemId

\* The recalculation of item 999, which has no factor: failure returned and
\* the failure document appended.
C12_Witness ==
  \E r \in Handlers :
    /\ CalcDone(reqs[r]) /\ reqs[r].itemId = Chars(999) /\ NoFactorStored(Chars(999))
    /\ reqs[r].error = "noFactor" /\ ~reqs[r].calcResult.success
    /\ Len(history) = 1 /\ IsFailureEntry(history[1]) /\ history[1].itemId = Chars(999)

IsUpdate(q) == q.op \in {"postFactor", "updateFactor"}
\* The updateFactor call has returned after its write to the Factor collection.
UpdateWrote(q) == IsUpdate(q) /\ q.pc = "done" /\ q.ufResult # Null /\ q.ufResult.success

\* The factor the item had when updateFactor looked it up.
PreviousFactor(q) == IF q.factorDoc = Null THEN Null ELSE q.factorDoc.factor

\* C13: an updateFactor that has written the Factor collection has made
\* exactly one History append, never two, and the document it appended (the
\* one the collection holds once the store accepted it) is a factor_updated
\* document of the item with the previous factor as oldValue and the new
\* factor as newValue.
C13_OneFactorEntry ==
  \A r \in Handlers :
    LET q == reqs[r]
        docs == DocsOfReq(q.seq)
    IN UpdateWrote(q) =>
         /\ q.create \in {"ok", "failed"}
         /\ Len(docs) = IF q.create = "ok" THEN 1 ELSE 0
         /\ q.create = "ok" =>
              /\ docs[1].action = "factor_updated"
              /\ docs[1].itemId = q.itemId
              /\ docs[1].oldValue = PreviousFactor(q)
              /\ docs[1].newValue = q.newFactor

IsGetFactor(q) == q.op \in {"getFactorRoute", "getFactor"}

\* C14: a getFactor that the store answers returns the factor stored for
\* the item, the value the last successful updateFactor gave it, and not
\* absent, also when that factor is 0.
C14_FactorRoundTrip ==
  \A r \in Handlers :
    LET q == reqs[r] IN
    (IsGetFactor(q) /\ q.pc = "done" /\ q.error = "none") =>
      \A d \in factors : d.itemId = q.itemId => q.gfResult = d.factor

\* C15: whether or not the History append fails, a recalculation whose
\* remote write was acknowledged returns success:true with the values it
\* computed and leaves the result written on the board, and an updateFactor
\* whose write to the Factor collection succeeded returns success:true with
\* the new factor stored.
C15_AppendFailureHarmless ==
  \A r \in Handlers :
    LET q == reqs[r] IN
    /\ (CalcDone(q) /\ q.wrote # Null) =>
         /\ q.calcResult = [inputValue |-> q.inputValue, factor |-> q.factorDoc.factor,
                            resultValue |-> q.resultValue, success |-> TRUE]
         /\ q.wrote = JsString(q.resultValue)
         /\ board[q.itemId].result = q.wrote
    /\ (IsUpdate(q) /\ q.pc = "done" /\ q.create # "none") =>
         /\ q.ufResult # Null /\ q.ufResult.success
         /\ q.ufResult.newFactor = q.newFactor
         /\ \E d \in factors : d.itemId = q.itemId /\ d.factor = q.newFactor

\* An updateFactor to 2 whose append failed: success returned, 2 stored,
\* History empty.
C15_Witness ==
  \E r \in Handlers :
    /\ IsUpdate(reqs[r]) /\ reqs[r].pc = "done" /\ reqs[r].create = "failed"
    /\ reqs[r].newFactor = Int2Num(2) /\ reqs[r].ufResult.success
    /\ \E d \in factors : d.itemId = reqs[r].itemId /\ d.factor = Int2Num(2)
    /\ history = <<>>

\* The limit the request asked for: parseInt of its limit parameter.
RequestedLimit(q) == parseInt(q.body)

\* C16: a history query reaches the store only with a limit in [1,100]; a
\* request without limit uses 50; a request whose limit is a number outside
\* [1,100], 0 and negative numbers included, is answered 400 and runs no
\* query.
C16_LimitValidated ==
  \A r \in Handlers :
    LET q == reqs[r] IN
    q.op = "getHistory" =>
      /\ (q.pc = "gh_find" \/ q.status = 200) => q.limit.m \in 1..100
      /\ q.body = Undefined => (q.limit = Int2Num(50) /\ q.status # 400)
      /\ (IsNum(RequestedLimit(q)) /\ RequestedLimit(q).m \notin 1..100) =>
           (q.pc = "done" /\ q.status = 400 /\ q.found = <<>>)

\* The attempts that ended without a 2xx response.
TransportFailures == {"noResponse", "noResponseApplied", "status"}

\* C17 as claimed: a response with GraphQL errors is re-attempted like a
\* transport failure: the failure is surfaced only after maxRetries + 1
\* attempts.
C17_GraphQLErrorsRetried ==
  \A r \in Handlers :
    LET q == reqs[r] IN
    \A i \in 1..Len(q.execs) :
      LET e == q.execs[i] IN
      e.outcomes[Len(e.outcomes)] = "gqlErrors" =>
        Len(e.outcomes) = retryConfig.maxRetries + 1

\* C17 amended: a response that carries GraphQL errors on HTTP 200 ends the
\* executeWithRetry call at that attempt: no further attempt and no delay
\* follows it, only the transport failures before it were retried, and the
\* caller surfaces the failure at once.
C17_GraphQLErrorsNotRetried ==
  \A r \in Handlers :
    LET q == reqs[r] IN
    /\ \A j \in 1..Len(q.outcomes) : q.outcomes[j] \in TransportFailures
    /\ \A i \in 1..Len(q.execs) :
         LET e == q.execs[i]
             n == Len(e.outcomes)
         IN (\E j \in 1..n : e.outcomes[j] = "gqlErrors") =>
              /\ e.outcomes[n] = "gqlErrors"
              /\ \A j \in 1..(n - 1) : e.outcomes[j] \in TransportFailures
              /\ Len(e.delays) = n - 1
              /\ i = Len(q.execs)
              /\ q.attempt = 0 /\ q.delays = <<>>
              /\ q.pc \in {"calc_logError", "done"}
              /\ q.error = "graphql"
              /\ q.pc = "done" => ~q.calcResult.success

\* A read answered with GraphQL errors at its first attempt under the
\* default configuration: one attempt, failure returned.
C17_Witness ==
  \E r \in Handlers :
    /\ retryConfig = defaultRetryConfig
    /\ reqs[r].pc = "done" /\ reqs[r].error = "graphql"
    /\ Len(reqs[r].execs) = 1
    /\ reqs[r].execs[1].outcomes = <<"gqlErrors">>
    /\ reqs[r].execs[1].delays = <<>>
    /\ ~reqs[r].calcResult.success

SuccessResponses == {"ok", "okNoItem", "okNotAcked"}

\* C18: a remote operation whose first attempt receives a successful
\* response makes that one attempt and sleeps no delay, also when the answer
\* holds no item, no column text or no acknowledgement; an attempt that is
\* followed by another one never was a successful response.
C18_SuccessNotRetried ==
  \A r \in Handlers :
    LET q == reqs[r] IN
    /\ \A j \in 1..Len(q.outcomes) : q.outcomes[j] \notin SuccessResponses
    /\ Len(q.delays) = q.attempt
    /\ \A i \in 1..Len(q.execs) :
         LET e == q.execs[i] IN
         /\ e.outcomes[1] \in SuccessResponses =>
              (Len(e.outcomes) = 1 /\ e.delays = <<>> /\ e.returned = "ok")
         /\ \A j \in 1..(Len(e.outcomes) - 1) : e.outcomes[j] \notin SuccessResponses

\* A read answered without item, or a write answered without
\* acknowledgement, in one attempt.
C18_Witness ==
  \E r \in Handlers :
    /\ reqs[r].pc = "done"
    /\ \E i \in 1..Len(reqs[r].execs) :
         /\ reqs[r].execs[i].outcomes \in {<<"okNoItem">>, <<"okNotAcked">>}
         /\ reqs[r].execs[i].delays = <<>>

\* The whole text is a decimal literal.
NumericText(t) ==
  /\ t.k = "str" /\ IsNum(parseFloat(t))
  /\ \A j \in 1..Len(t.s) : IsDigit(t.s[j]) \/ t.s[j] \in {".", "-"}

\* The call recorded its failure: one append, of a failure document, which
\* the collection holds when the store accepted it, and no other document.
FailureRecorded(q) ==
  /\ q.create \in {"ok", "failed"}
  /\ Len(DocsOfReq(q.seq)) = IF q.create = "ok" THEN 1 ELSE 0
  /\ \A j \in 1..Len(DocsOfReq(q.seq)) : IsFailureEntry(DocsOfReq(q.seq)[j])

\* The remote read of the call was answered with no text (noInput) or with
\* the text readText.
AbsentText(q) == q.error = "noInput"
ReadText(q) == q.readText # Null

FailedWithoutWrite(q) ==
  /\ ~q.calcResult.success
  /\ q.wrote = Null /\ q.writeOutcome = "none"
  /\ FailureRecorded(q)

\* C19 as claimed: when the input column's text is absent or is not numeric
\* text, a numeric prefix followed by other characters included, the call
\* returns success:false, writes nothing and records one failure document.
C19_NonNumericFails ==
  \A r \in Handlers :
    LET q == reqs[r] IN
    (CalcDone(q) /\ (AbsentText(q) \/ (ReadText(q) /\ ~NumericText(q.readText)))) =>
      FailedWithoutWrite(q)

\* C19 amended: when the input column's text is absent, empty or does not
\* start with a number, the call returns success:false, writes nothing and
\* records one failure document; a text that starts with a number is read
\* as that number, whatever follows it, and the call goes on to the write.
C19_NoNumericPrefixFails ==
  \A r \in Handlers :
    LET q == reqs[r] IN
    /\ (CalcDone(q) /\ (AbsentText(q) \/ (ReadText(q) /\ IsNaN(parseFloat(q.readText))))) =>
         FailedWithoutWrite(q)
    /\ (IsCalc(q) /\ ReadText(q) /\ IsNum(parseFloat(q.readText))) =>
         /\ q.inputValue = parseFloat(q.readText)
         /\ q.pc \in {"calc_write", "calc_log", "calc_logError", "done"}
         /\ q.error \notin {"noInput", "invalidInput"}

\* The input text "abc": failure returned, nothing written, the failure
\* document appended.
C19_Witness ==
  \E r \in Handlers :
    /\ CalcDone(reqs[r]) /\ reqs[r].readText = Str(<<"a", "b", "c">>)
    /\ reqs[r].error = "invalidInput"
    /\ FailedWithoutWrite(reqs[r]) /\ Len(history) = 1

\* The last answer to the remote write was a failure of one of the kinds of
\* the claim: rejected, unreachable after the retries, or unacknowledged.
WriteFailed(q) ==
  q.writeOutcome \in {"status", "gqlErrors", "noResponse", "noResponseApplied", "okNotAcked"}

\* C20: when the remote write is rejected, is unreachable after the retries
\* or is answered without acknowledgement, the call returns success:false
\* and records one failure document (newValue 0, error note) and no success
\* document with inputValue and resultValue.
C20_WriteFailureFails ==
  \A r \in Handlers :
    LET q == reqs[r] IN
    (IsCalc(q) /\ WriteFailed(q)) =>
      /\ q.pc \in {"calc_logError", "done"}
      /\ q.wrote = Null
      /\ q.pc = "done" =>
           /\ q.calcResult = CalcFailure
           /\ FailureRecorded(q)
           /\ \A i \in 1..Len(history) :
                history[i].req = q.seq =>
                  (history[i].inputValue = Undefined /\ history[i].resultValue = Undefined)

\* A write answered without acknowledgement: failure returned and the
\* failure document appended.
C20_Witness ==
  \E r \in Handlers :
    /\ CalcDone(reqs[r]) /\ reqs[r].writeOutcome = "okNotAcked"
    /\ reqs[r].calcResult = CalcFailure
    /\ Len(history) = 1 /\ IsFailureEntry(history[1])

\* event.value.value is there and is a number or numeric text.
Parsable(v) == Truthy(v) /\ IsNum(parseFloat(JsString(v)))

\* C21: an accepted event with a parsable value.value, delivered without
\* challenge, makes exactly one call calculateAndUpdateResult(String(pulseId),
\* "webhook"): the call is for the item of the pulseId, and the History
\* document of the attempt carries triggeredBy webhook and that itemId.
C21_AcceptedEventTriggersOnce ==
  \A r \in Handlers :
    LET q == reqs[r]
        docs == DocsOfReq(q.seq)
    IN (IsDelivery(q) /\ NoChallenge(q) /\ AcceptedEvent(q) /\ Parsable(EventValue(q))) =>
         /\ q.calcCalls = 1
         /\ q.itemId = NumToChars(q.body.event.pulseId)
         /\ q.triggeredBy = "webhook"
         /\ Len(docs) <= 1
         /\ \A i \in 1..Len(docs) :
              /\ docs[i].action = "recalculation"
              /\ docs[i].triggeredBy = "webhook"
              /\ docs[i].itemId = NumToChars(q.body.event.pulseId)
         /\ q.pc = "done" => Len(docs) = IF q.create = "ok" THEN 1 ELSE 0

\* The event of pulse 123 with value 10: one recalculation, whose document
\* carries webhook and "123".
C21_Witness ==
  \E r \in Handlers :
    /\ IsDelivery(reqs[r]) /\ NoChallenge(reqs[r]) /\ AcceptedEvent(reqs[r])
    /\ EventValue(reqs[r]) = Int2Num(10) /\ reqs[r].body.event.pulseId = Int2Num(123)
    /\ reqs[r].pc = "done" /\ reqs[r].calcCalls = 1
    /\ Len(history) = 1 /\ history[1].triggeredBy = "webhook"
    /\ history[1].itemId = Chars(123) /\ history[1].resultValue = Int2Num(25)

\* C22: an updateFactor that succeeds returns the new factor as newFactor
\* and as oldFactor the factor the item had before the call, 0 included, and
\* absent only when the item had no row.
C22_OldFactorReturned ==
  \A r \in Handlers :
    LET q == reqs[r] IN
    UpdateWrote(q) =>
      /\ q.ufResult.newFactor = q.newFactor
      /\ q.ufResult.oldFactor = PreviousFactor(q)

\* The updateFactor call has returned failure after Factor.findOne answered.
UpdateFailedAtWrite(q) ==
  IsUpdate(q) /\ q.pc = "done" /\ q.error = "save" /\ ~q.ufResult.success

\* C25 as claimed: updateFactor appends its factor_updated document
\* unconditionally: a call whose write to the Factor collection failed has
\* made the append all the same.
C25_AppendedUnconditionally ==
  \A r \in Handlers :
    UpdateFailedAtWrite(reqs[r]) => reqs[r].create # "none"

\* C25 amended: updateFactor appends its factor_updated document only after
\* the write to the Factor collection succeeded: a call that returns
\* success:false has made no append, and a factor_updated document always
\* describes a factor that was stored.
C25_AppendOnlyAfterWrite ==
  /\ \A r \in Handlers :
       LET q == reqs[r] IN
       IsUpdate(q) =>
         /\ (q.pc = "done" /\ q.ufResult # Null /\ ~q.ufResult.success) =>
              (q.create = "none" /\ EntriesOf(q.seq) = 0)
         /\ EntriesOf(q.seq) > 0 =>
              \E d \in factors : d.itemId = q.itemId /\ d.factor = q.newFactor
  /\ \A i \in 1..Len(history) :
       history[i].action = "factor_updated" =>
         \E d \in factors : d.itemId = history[i].itemId

\* An updateFactor to 2 whose write the store failed: success:false, the
\* factor unchanged and History empty.
C25_Witness ==
  \E r \in Handlers :
    /\ UpdateFailedAtWrite(reqs[r]) /\ reqs[r].newFactor = Int2Num(2)
    /\ reqs[r].create = "none" /\ history = <<>>
    /\ \A d \in factors : d.factor # Int2Num(2)

IsClientCall(q) == q.op \in {"getItem", "getColumnValue"}

\* What happened to the remote operation, from the last attempt's outcome.
FailureKind(q) ==
  CASE q.error \in {"noResponse", "noResponseApplied"} -> "unreachable"
    [] q.error \in {"status", "gqlErrors"} -> "rejected"
    [] q.error = "okNoItem" -> "notFound"
    [] q.error = "ok" /\ q.op = "getColumnValue" /\ ~Truthy(board[q.itemId].input)
         -> "notFound"
    [] OTHER -> "none"

\* What the caller reads from what the operation surfaced: the fixed text of
\* the message of the thrown error, or the null that getColumnValue returns.
SurfacedKind(q) ==
  CASE q.apiError = Null -> IF q.apiResult = Null THEN "notFound" ELSE "none"
    [] q.apiError.message.text = "Monday API is unreachable" -> "unreachable"
    [] q.apiError.message.text = "Monday API Error" -> "rejected"
    [] q.apiError.message.text = "Item not found" -> "notFound"
    [] OTHER -> "unknown"

\* C23: what a finished remote operation surfaces to its caller tells the
\* kind of its failure: unreachable exactly when the last attempt got no
\* response, rejected exactly when it got a non-2xx status or GraphQL
\* errors, not-found exactly when the answer held no item or no column text,
\* and none of them when it succeeded.
C23_FailureKindSurfaced ==
  \A r \in Handlers :
    LET q == reqs[r] IN
    (IsClientCall(q) /\ q.pc = "done") =>
      /\ SurfacedKind(q) = FailureKind(q)
      /\ q.error \in {"noResponse", "noResponseApplied"} =>
           q.apiError.statusCode = Int2Num(503)
      /\ q.error = "status" =>
           (q.apiError.statusCode.m \in StatusCodes
              /\ q.apiError.message.detail = q.apiError.statusCode)
      /\ q.apiError # Null => q.apiResult = Undefined

\* Under the default configuration, a getItem whose last attempt got no
\* response: the error thrown says unreachable, with statusCode 503.
C23_Witness ==
  \E r \in Handlers :
    /\ reqs[r].op = "getItem" /\ reqs[r].pc = "done"
    /\ retryConfig = defaultRetryConfig
    /\ reqs[r].error = "noResponse"
    /\ reqs[r].apiError =
         ErrorObject(Int2Num(503), "Monday API is unreachable", Undefined)

RECURSIVE Attempts(_)
\* Number of attempts recorded in a sequence of finished executeWithRetry calls.
Attempts(execs) ==
  IF execs = <<>> THEN 0 ELSE Len(Head(execs).outcomes) + Attempts(Tail(execs))

\* C28: one calculateAndUpdateResult issues at most one getColumnValue and
\* then at most one updateColumnValue, the second only after the first
\* returned, neither again after it threw, each with at most maxRetries + 1
\* attempts: at most 2 * (maxRetries + 1) attempts in all, those of the
\* operation in progress included.
C28_OneReadThenOneWrite ==
  \A r \in Handlers :
    LET q == reqs[r] IN
    IsCalc(q) =>
      /\ Len(q.execs) <= 2
      /\ Len(q.execs) >= 1 => q.execs[1].ctx = "getColumnValue"
      /\ Len(q.execs) = 2 =>
           (q.execs[1].returned = "ok" /\ q.execs[2].ctx = "updateColumnValue")
      /\ q.pc = "calc_read" => q.execs = <<>>
      /\ q.pc = "calc_write" => Len(q.execs) = 1
      /\ \A j \in 1..Len(q.execs) :
           Len(q.execs[j].outcomes) <= retryConfig.maxRetries + 1
      /\ Attempts(q.execs) + Len(q.outcomes) <= 2 * (retryConfig.maxRetries + 1)

\* A recalculation that used all its attempts: the read resolved on the last
\* attempt allowed and the write threw on its last one, with maxRetries > 0.
C28_Witness ==
  \E r \in Handlers :
    /\ CalcDone(reqs[r])
    /\ retryConfig.maxRetries > 0
    /\ Len(reqs[r].execs) = 2
    /\ reqs[r].execs[2].returned = "throw"
    /\ Attempts(reqs[r].execs) = 2 * (retryConfig.maxRetries + 1)

\* A HistoryEntry carrying inputValue and resultValue.
IsSuccessEntry(e) == e.inputValue # Undefined /\ e.resultValue # Undefined

\* C29: a success entry is appended only by a recalculation whose remote
\* write of that entry's resultValue to the item's result column was
\* acknowledged, and the step that acknowledges a write is the step in
\* which the remote board takes the value: no success entry exists whose
\* resultValue was never written to the remote board.
C29_SuccessEntryAfterAcknowledgedWrite ==
  [][/\ \A n \in (Len(history) + 1)..Len(history') :
          IsSuccessEntry(history'[n]) =>
            \E r \in Handlers :
              /\ reqs[r].pc = "calc_log"
              /\ reqs[r].itemId = history'[n].itemId
              /\ reqs[r].writeOutcome = "ok"
              /\ reqs[r].wrote = JsString(history'[n].resultValue)
     /\ \A r \in Handlers :
          (reqs'[r].wrote # Null /\ reqs'[r].wrote # reqs[r].wrote) =>
            /\ reqs[r].pc = "calc_write"
            /\ reqs'[r].writeOutcome = "ok"
            /\ reqs'[r].wrote = JsString(reqs[r].resultValue)
            /\ board'[reqs[r].itemId].result = reqs'[r].wrote]_vars

\* A success entry in the history, its resultValue in the result column of
\* its item.
C29_Witness ==
  \E n \in 1..Len(history) :
    /\ IsSuccessEntry(history[n])
    /\ board[history[n].itemId].result = JsString(history[n].resultValue)

\* The recalculation has taken its input: it is at the remote write, at the
\* append, or has returned success.
HasInput(q) ==
  \/ q.pc \in {"calc_write", "calc_log"}
  \/ q.pc = "done" /\ q.calcResult # Null /\ q.calcResult # CalcFailure

\* C30: the recalculation a webhook event triggers takes its inputValue from
\* the text of the remote input column, whatever number the event carried:
\* the result, the value written and the History document follow the remote
\* value, and a remote text without number fails the recalculation although
\* the event's value was a number.
C30_InputFromRemoteRead ==
  \A r \in Handlers :
    LET q == reqs[r]
        docs == DocsOfReq(q.seq)
        remote == board[q.itemId].input
    IN (IsDelivery(q) /\ q.calcCalls = 1) =>
         /\ HasInput(q) =>
              /\ q.readText = remote
              /\ q.inputValue = parseFloat(remote)
              /\ q.resultValue = Times(parseFloat(remote), q.factorDoc.factor)
              /\ q.wrote # Null => q.wrote = JsString(q.resultValue)
         /\ q.error = "invalidInput" => IsNaN(parseFloat(remote))
         /\ \A i \in 1..Len(docs) :
              IsSuccessEntry(docs[i]) =>
                /\ docs[i].inputValue = parseFloat(remote)
                /\ docs[i].resultValue = Times(parseFloat(remote), q.factorDoc.factor)

\* An event carrying 7 for an item whose remote input column reads "10":
\* input 10, result 25 written and recorded.
C30_Witness ==
  \E r \in Handlers :
    /\ IsDelivery(reqs[r]) /\ EventValue(reqs[r]) = Int2Num(7)
    /\ reqs[r].pc = "done" /\ reqs[r].inputValue = Int2Num(10)
    /\ board[reqs[r].itemId].input = Str(<<"1", "0">>)
    /\ board[reqs[r].itemId].result = Str(<<"2", "5">>)
    /\ Len(history) = 1 /\ history[1].inputValue = Int2Num(10)
    /\ history[1].resultValue = Int2Num(25)

RowsOf(coll, itemId) == {d \in coll : d.itemId = itemId}

\* C24: under every interleaving of updateFactor, getFactor,
\* calculateAndUpdateResult, getHistory and webhook deliveries the Factor
\* collection holds at most one document per itemId and only factors >= 0,
\* no step removes a document or changes its itemId, and the only steps
\* that change the collection are the save() or create() of an updateFactor.
C24_FactorStore ==
  /\ [](\A i \in ItemIds : Cardinality(RowsOf(factors, i)) <= 1)
  /\ [](\A d \in factors : IsNum(d.factor) /\ d.factor.m >= 0)
  /\ [][/\ \A d \in factors : \E e \in factors' : e.id = d.id /\ e.itemId = d.itemId
        /\ factors' # factors =>
             \E r \in DOMAIN reqs :
               /\ IsUpdate(reqs[r]) /\ reqs[r].pc = "uf_save"
               /\ reqs'[r].pc # "uf_save"
               /\ \A d \in factors' \ factors :
                    d.itemId = reqs[r].itemId /\ d.factor = reqs[r].newFactor]_vars

\* Two updateFactor calls that both found no document for the item and have
\* both returned, the create() of one rejected: one document.
C24_Witness ==
  /\ \A r \in DOMAIN reqs :
       /\ IsUpdate(reqs[r]) /\ reqs[r].pc = "done"
       /\ reqs[r].factorDoc = Null /\ reqs[r].error \in {"none", "save"}
  /\ \E r \in DOMAIN reqs : reqs[r].error = "save" /\ FactorValid(reqs[r].newFactor)
  /\ Cardinality(factors) = 1

\* The factor stored for the item now.
StoredFactor(itemId) == FindOne(factors, itemId).factor

\* C26 as claimed: the result a recalculation computes when its remote read
\* returns, which is the value it then writes, is inputValue times the
\* factor stored for the item at that moment, even when an updateFactor
\* changed the stored factor after the recalculation loaded it.
C26_FactorStoredAtRead ==
  [][\A r \in DOMAIN reqs :
       (reqs[r].pc = "calc_read" /\ reqs'[r].pc = "calc_write") =>
         reqs'[r].resultValue =
           Times(reqs'[r].inputValue, StoredFactor(reqs[r].itemId))]_vars

\* C26 amended: the value a recalculation writes is inputValue times the
\* factor of the document it loaded at its start, before the remote read;
\* a change an updateFactor makes to the stored factor after that load is
\* not seen by the recalculation.
C26_FactorAsLoaded ==
  \A r \in DOMAIN reqs :
    LET q == reqs[r] IN
    (IsCalc(q) /\ HasInput(q)) =>
      /\ q.inputValue = parseFloat(q.readText)
      /\ q.resultValue = Times(q.inputValue, q.factorDoc.factor)
      /\ q.wrote # Null => q.wrote = JsString(q.resultValue)
      /\ q.calcResult # Null => q.calcResult.factor = q.factorDoc.factor

\* A recalculation that loaded the factor 2.5 and wrote 25 for the input 10,
\* and an updateFactor that arrived before it and has stored the factor 2
\* after that load.
C26_Witness ==
  \E r, u \in DOMAIN reqs :
    /\ CalcDone(reqs[r]) /\ reqs[r].writeOutcome = "ok"
    /\ reqs[r].factorDoc.factor = Num(25, 1) /\ reqs[r].wrote = Str(<<"2", "5">>)
    /\ UpdateWrote(reqs[u]) /\ reqs[u].seq < reqs[r].seq
    /\ StoredFactor(reqs[r].itemId) = Num(2, 0)

\* C27: recalculations of the same item run without lock.  Each one that has
\* returned has appended its own History document, unless its append failed:
\* two documents for two recalculations whose appends succeeded.  The result
\* column changes only in the write step of a recalculation, to the value of
\* that recalculation, and holds an acknowledged value right after the step
\* that acknowledges it: the column holds the value of the last remote write,
\* whichever input snapshot it derives from.
C27_OwnEntryLastWriteWins ==
  /\ [](\A r \in DOMAIN reqs :
          LET q == reqs[r] IN
          CalcDone(q) =>
            /\ Len(DocsOfReq(q.seq)) = IF q.create = "ok" THEN 1 ELSE 0
            /\ \A i \in 1..Len(DocsOfReq(q.seq)) :
                 /\ DocsOfReq(q.seq)[i].itemId = q.itemId
                 /\ DocsOfReq(q.seq)[i].triggeredBy = q.triggeredBy
                 /\ IsSuccessEntry(DocsOfReq(q.seq)[i]) =>
                      DocsOfReq(q.seq)[i].resultValue = q.resultValue)
  /\ [][/\ \A i \in ItemIds :
             board'[i].result # board[i].result =>
               \E r \in DOMAIN reqs :
                 /\ reqs[r].pc = "calc_write" /\ reqs[r].itemId = i
                 /\ board'[i].result = JsString(reqs[r].resultValue)
        /\ \A r \in DOMAIN reqs :
             (reqs[r].pc = "calc_write" /\ reqs'[r].pc = "calc_log") =>
               board'[reqs[r].itemId].result = JsString(reqs[r].resultValue)]_vars

\* A recalculation from the API and one from a webhook, both returned with
\* success, two documents: one read the input 10 before the edit and wrote 25
\* last, the other read 20 and wrote 50; the result column holds 25 although
\* the input column reads 20.
C27_Witness ==
  \E a, b \in DOMAIN reqs :
    /\ reqs[a].op = "webhook" /\ reqs[b].op = "postRecalculate"
    /\ CalcDone(reqs[a]) /\ CalcDone(reqs[b])
    /\ reqs[a].itemId = reqs[b].itemId
    /\ Len(history) = 2 /\ IsSuccessEntry(history[1]) /\ IsSuccessEntry(history[2])
    /\ {reqs[a].inputValue, reqs[b].inputValue} = {Int2Num(10), Int2Num(20)}
    /\ {reqs[a].wrote, reqs[b].wrote} = {Str(<<"2", "5">>), Str(<<"5", "0">>)}
    /\ board[reqs[a].itemId].input = Str(<<"2", "0">>)
    /\ board[reqs[a].itemId].result = Str(<<"2", "5">>)

\* The findOne of the updateFactor call answered that the item has no
\* document, and the call sends a factor the schema accepts.
ReadAbsent(q) ==
  /\ IsUpdate(q) /\ q.pc \in {"uf_save", "uf_log", "done"} /\ q.error # "db"
  /\ q.factorDoc = Null /\ FactorValid(q.newFactor)

\* The updateFactor call has returned success:false.
UpdateFailed(q) ==
  IsUpdate(q) /\ q.pc = "done" /\ q.ufResult # Null /\ ~q.ufResult.success

\* C31: two updateFactor calls for the same item that both read absent
\* before either wrote.  The create() of the call that comes second is
\* rejected and changes neither the store nor the history.  Once both have
\* returned the store holds at most one document for the item; when it holds
\* one, it is the document of exactly one call, which returned success:true
\* with its factor stored and made the one factor_updated append, and the
\* other call returned success:false and appended nothing.
C31_ConcurrentCreates ==
  /\ [](\A r, u \in DOMAIN reqs :
          LET q == reqs[r]
              o == reqs[u]
              rows == RowsOf(factors, q.itemId)
          IN (r # u /\ ReadAbsent(q) /\ ReadAbsent(o) /\ q.itemId = o.itemId
                /\ q.pc = "done" /\ o.pc = "done") =>
               /\ Cardinality(rows) <= 1
               /\ ~(UpdateWrote(q) /\ UpdateWrote(o))
               /\ rows # {} => (UpdateWrote(q) \/ UpdateWrote(o))
               /\ UpdateWrote(q) =>
                    /\ rows = {FactorRow(q.seq, q.itemId, q.newFactor)}
                    /\ q.ufResult.newFactor = q.newFactor
                    /\ UpdateFailed(o)
                    /\ Len(DocsOfReq(q.seq)) = IF q.create = "ok" THEN 1 ELSE 0
                    /\ \A i \in 1..Len(DocsOfReq(q.seq)) :
                         DocsOfReq(q.seq)[i].action = "factor_updated"
               /\ UpdateFailed(q) => (DocsOfReq(q.seq) = <<>> /\ q.create = "none"))
  /\ [][\A r \in DOMAIN reqs :
          (ReadAbsent(reqs[r]) /\ reqs[r].pc = "uf_save" /\ reqs'[r].pc # "uf_save"
             /\ RowsOf(factors, reqs[r].itemId) # {}) =>
            /\ UpdateFailed(reqs'[r])
            /\ factors' = factors /\ history' = history]_vars

\* Both calls read absent and have returned: the first to arrive failed, the
\* second succeeded, its document is the only one and its factor_updated
\* document the only one in the history.
C31_Witness ==
  \E r, u \in DOMAIN reqs :
    /\ ReadAbsent(reqs[r]) /\ ReadAbsent(reqs[u])
    /\ reqs[r].seq = 1 /\ reqs[u].seq = 2
    /\ UpdateFailed(reqs[r]) /\ UpdateWrote(reqs[u])
    /\ factors = {FactorRow(2, reqs[u].itemId, Num(2, 0))}
    /\ Len(history) = 1 /\ history[1].action = "factor_updated"
    /\ history[1].req = 2

\* C32: handleWebhook sends exactly one response per request: none while the
\* request is in progress, one once it is done, on every path.  For an event
\* that triggered a recalculation the response is sent in the step in which
\* the recalculation returns, after its last attempt and its History append:
\* never while an attempt or a retry delay is still to come.
C32_OneResponseAfterRecalculation ==
  /\ [](\A r \in DOMAIN reqs :
          LET q == reqs[r] IN
          q.op = "webhook" =>
            /\ q.sent <= 1
            /\ q.pc = "done" <=> q.sent = 1
            /\ q.sent = 1 => (q.status \in {200, 500} /\ q.reply # Null)
            /\ (q.sent = 1 /\ q.calcCalls > 0) =>
                 (q.calcCalls = 1 /\ q.calcResult # Null /\ q.attempt = 0
                    /\ q.create # "none"))
  /\ [][\A r \in DOMAIN reqs :
          (reqs'[r].op = "webhook" /\ reqs'[r].seq = reqs[r].seq) =>
            /\ reqs'[r].sent >= reqs[r].sent
            /\ (reqs'[r].sent # reqs[r].sent /\ reqs[r].calcCalls > 0) =>
                 reqs[r].pc \in {"calc_log", "calc_logError"}
            /\ reqs[r].pc \in {"calc_find", "calc_read", "calc_write"} =>
                 reqs'[r].sent = 0]_vars

\* An accepted event whose recalculation gave up after the last attempt of
\* the remote read got no response: one response, 200, sent when the failed
\* recalculation had returned.
C32_Witness ==
  \E r \in DOMAIN reqs :
    /\ IsDelivery(reqs[r]) /\ AcceptedEvent(reqs[r])
    /\ reqs[r].pc = "done" /\ reqs[r].sent = 1 /\ reqs[r].status = 200
    /\ reqs[r].calcCalls = 1 /\ reqs[r].calcResult = CalcFailure
    /\ reqs[r].error = "noResponse" /\ reqs[r].writeOutcome = "none"
====
